---- MODULE Spec2Model ----
(***************************************************************************)
(* Coffee-shop storefront: the browser-side cart cache (CartContext), the  *)
(* API client it calls, the order-summary arithmetic of the cart and       *)
(* checkout pages, the checkout form, the products page, the controls that *)
(* change the cart, and the Cart, Order and Catalog Services the client    *)
(* talks to.                                                               *)
(*                                                                         *)
(* The frontend is translated from its TypeScript sources.  The backend    *)
(* (FastAPI main.py) is not part of the sources; the three services are    *)
(* modelled from the specification's sections 4.1 to 4.3 and 5.            *)
(*                                                                         *)
(* Specifications: Spec (cart context), SpecService (plus direct Cart      *)
(* Service calls), SpecTotals (summary arithmetic), SpecSerial (concurrent *)
(* addItem handlers), SpecCheckout (order flow), SpecForm (form            *)
(* validation), SpecCatalog (listing and filter), SpecUi (cart controls),  *)
(* SpecClient (cart context and checkout form together), SpecLive (cart    *)
(* context with every remote call completing).                             *)
(***************************************************************************)
EXTENDS Integers, Sequences, FiniteSets, TLC

VARIABLES
    state,       \* CartContextState of useReducer: [cart, loading, error]
    serverCart,  \* the session's cart on the Cart Service: Seq of [product_id, quantity]
    inflight,    \* cart requests issued by apiRequest whose promise has not settled
    ncalls,      \* number of calls made so far (context functions and direct service calls)
    lastCall,    \* the most recent call: [fn, pid, qty]
    lastEv,      \* what the most recent step was
    lastResult,  \* value returned by the most recent getItemCount / getCartTotal
    nsvc,        \* number of direct Cart Service calls made so far
    svcResult,   \* result of the most recent direct Cart Service call
    subtotalIn,  \* the subtotal prop (in cents) handed to a summary component
    summary,     \* what the summary component rendered last: [by, shipping, tax, total]
    shown,       \* the amounts it displayed, in cents: [by, subtotal, shipping, tax, total]
    lock,        \* the session's mutex on the Cart Service: 0 or the handler holding it
    handlers,    \* concurrent addItem handlers of one session: Seq of [pc, pid, qty, seen]
    cartBefore,  \* the session's cart when the concurrent handlers were started
    formData,    \* CheckoutPage: the form's fields, each a sequence of characters
    errors,      \* CheckoutPage: the message shown under each field ("" for none)
    isSubmitting,\* CheckoutPage: a submission is being processed
    orderFlight, \* the order request of handleSubmit whose promise has not settled
    submitted,   \* what the most recent handleSubmit did: [n, outcome]
    route,       \* the order id router.push navigated to, if any
    alerted,     \* the text of the most recent alert()
    orders,      \* the Order Service's store: Seq of Order, the id is the position
    orderResult, \* result of the most recent direct Order Service call
    listing,     \* the most recent productsApi.getProducts call: [op, params, result]
    shop,        \* ProductsPage: [products, selectedCategory, filteredProducts, loading]
    ui           \* add-to-cart and cart-item controls: [quantity, busy]

vars == <<state, serverCart, inflight, ncalls, lastCall, lastEv, lastResult,
          nsvc, svcResult, subtotalIn, summary, shown, lock, handlers, cartBefore,
          formData, errors, isSubmitting, orderFlight, submitted, route, alerted,
          orders, orderResult, listing, shop, ui>>

serialVars == <<lock, handlers, cartBefore>>
formVars == <<formData, errors, isSubmitting, orderFlight, submitted, route, alerted>>
orderVars == <<orders, orderResult>>
catalogVars == <<listing, shop>>
uiVars == <<ui>>
auxVars == <<serialVars, formVars, orderVars, catalogVars, uiVars>>

totalsVars == <<subtotalIn, summary, shown>>
cartVars == <<state, serverCart, inflight, ncalls, lastCall, lastEv, lastResult,
              nsvc, svcResult>>

-----------------------------------------------------------------------------
(* Bounds of the model *)

MaxCalls == 3          \* calls of context functions per behaviour
MaxInflight == 2       \* overlapping cart requests
MaxQtyArg == 1         \* largest quantity argument
MaxSvcCalls == 1       \* direct Cart Service calls per behaviour (SpecService)
MaxSubtotalCents == 10000  \* largest subtotal handed to a summary component (SpecTotals)
NumHandlers == 2       \* concurrent addItem handlers of one session (SpecSerial)
MaxSubmits == 2        \* submissions of the checkout form per behaviour
MaxPageArg == 3        \* largest page asked of listProducts (SpecCatalog)
MaxPerPageArg == 3     \* largest small per_page asked of listProducts (SpecCatalog)
MaxOrders == 1         \* orders created by direct Order Service calls per behaviour

-----------------------------------------------------------------------------
(* Values *)

\* `T | null` is a sequence of length 0 (null) or 1.
Null == <<>>
Some(x) == <<x>>

\* Product ids of the catalog, and one id that resolves to no product.
Products == {"p1", "p2"}
UnknownProduct == "px"

\* Unit prices in cents (9.99 and 14.50, the prices of the specification's example).
Price(pid) == IF pid = "p1" THEN 999 ELSE 1450

QtyArgs == 0..MaxQtyArg

NoPid == "-"

DefaultPerPage == 12   \* per_page when the query has none
MaxPerPage == 50       \* largest per_page the Catalog Service serves
QuantityMax == 10      \* max of both QuantitySelector components

-----------------------------------------------------------------------------
(* Cart Service (specification section 4.2) *)

RECURSIVE SumQty(_)
SumQty(entries) ==
    IF entries = <<>> THEN 0
    ELSE Head(entries).quantity + SumQty(Tail(entries))

RECURSIVE SumPrice(_)
SumPrice(entries) ==
    IF entries = <<>> THEN 0
    ELSE Head(entries).quantity * Price(Head(entries).product_id)
         + SumPrice(Tail(entries))

Snapshot_CountsLines(entries) ==
    [items |-> [i \in 1..Len(entries) |->
                  [product_id |-> entries[i].product_id,
                   quantity   |-> entries[i].quantity,
                   subtotal   |-> entries[i].quantity * Price(entries[i].product_id)]],
     total_items |-> Len(entries),
     subtotal    |-> SumPrice(entries)]

\* The Cart snapshot every cart endpoint returns (types: CartItem, Cart).
Snapshot(entries) ==
    [items |-> [i \in 1..Len(entries) |->
                  [product_id |-> entries[i].product_id,
                   quantity   |-> entries[i].quantity,
                   subtotal   |-> entries[i].quantity * Price(entries[i].product_id)]],
     total_items |-> SumQty(entries),
     subtotal    |-> SumPrice(entries)]

HasEntry(entries, pid) == \E i \in 1..Len(entries) : entries[i].product_id = pid

IndexOf(entries, pid) == CHOOSE i \in 1..Len(entries) : entries[i].product_id = pid

QtyOf(entries, pid) ==
    IF HasEntry(entries, pid) THEN entries[IndexOf(entries, pid)].quantity ELSE 0

Without(entries, pid) == SelectSeq(entries, LAMBDA e : e.product_id # pid)

\* A service result: the new entry list and either a snapshot or an error.
Ok(entries) == [ok |-> TRUE, entries |-> entries, message |-> ""]
Err(entries, msg) == [ok |-> FALSE, entries |-> entries, message |-> msg]

getCart(entries) == Ok(entries)

addItem_Replace(entries, pid, q) ==
    IF pid \notin Products THEN Err(entries, "NotFound")
    ELSE IF q <= 0 THEN Err(entries, "InvalidQuantity")
    ELSE IF HasEntry(entries, pid)
         THEN Ok([entries EXCEPT ![IndexOf(entries, pid)].quantity = q])
         ELSE Ok(Append(entries, [product_id |-> pid, quantity |-> q]))

addItem_NoQuantityCheck(entries, pid, q) ==
    IF pid \notin Products THEN Err(entries, "NotFound")
    ELSE IF HasEntry(entries, pid)
         THEN Ok([entries EXCEPT ![IndexOf(entries, pid)].quantity = @ + q])
         ELSE Ok(Append(entries, [product_id |-> pid, quantity |-> q]))

addItem(entries, pid, q) ==
    IF pid \notin Products THEN Err(entries, "NotFound")
    ELSE IF q <= 0 THEN Err(entries, "InvalidQuantity")
    ELSE IF HasEntry(entries, pid)
         THEN Ok([entries EXCEPT ![IndexOf(entries, pid)].quantity = @ + q])
         ELSE Ok(Append(entries, [product_id |-> pid, quantity |-> q]))

removeItem_NotFound(entries, pid) ==
    IF HasEntry(entries, pid) THEN Ok(Without(entries, pid))
    ELSE Err(entries, "NotFound")

removeItem(entries, pid) == Ok(Without(entries, pid))

setQuantity_KeepZero(entries, pid, q) ==
    IF ~HasEntry(entries, pid) THEN Err(entries, "NotFound")
    ELSE Ok([entries EXCEPT ![IndexOf(entries, pid)].quantity = q])

setQuantity(entries, pid, q) ==
    IF ~HasEntry(entries, pid) THEN Err(entries, "NotFound")
    ELSE IF q <= 0 THEN removeItem(entries, pid)
    ELSE Ok([entries EXCEPT ![IndexOf(entries, pid)].quantity = q])

\* The endpoint a request is routed to (specification section 6).
Serve(entries, req) ==
    CASE req.method = "GET"    -> getCart(entries)
      [] req.method = "POST"   -> addItem(entries, req.pid, req.qty)
      [] req.method = "PUT"    -> setQuantity(entries, req.pid, req.qty)
      [] req.method = "DELETE" -> removeItem(entries, req.pid)

-----------------------------------------------------------------------------
(* API client: cartApi *)

cartApi_getCart == [method |-> "GET", pid |-> NoPid, qty |-> 0]

cartApi_addToCart(productId, quantity) ==
    [method |-> "POST", pid |-> productId, qty |-> quantity]

cartApi_updateCartItem(productId, quantity) ==
    [method |-> "PUT", pid |-> productId, qty |-> quantity]

cartApi_removeFromCart(productId) ==
    [method |-> "DELETE", pid |-> productId, qty |-> 0]

-----------------------------------------------------------------------------
(* Cart context: reducer *)

initialState == [cart |-> Null, loading |-> FALSE, error |-> Null]

cartReducer_ClearOnError(s, action) ==
    CASE action.type = "SET_LOADING" ->
            [s EXCEPT !.loading = action.loading]
      [] action.type = "SET_ERROR" ->
            [s EXCEPT !.error = Some(action.message), !.loading = FALSE,
                      !.cart = Null]
      [] action.type = "SET_CART" ->
            [s EXCEPT !.cart = Some(action.cart), !.loading = FALSE, !.error = Null]
      [] action.type = "CLEAR_CART" ->
            [s EXCEPT !.cart = Null]
      [] OTHER -> s

cartReducer_Merge(s, action) ==
    CASE action.type = "SET_LOADING" ->
            [s EXCEPT !.loading = action.loading]
      [] action.type = "SET_ERROR" ->
            [s EXCEPT !.error = Some(action.message), !.loading = FALSE]
      [] action.type = "SET_CART" ->
            [s EXCEPT !.cart = IF s.cart = Null THEN Some(action.cart)
                               ELSE Some([action.cart EXCEPT
                                            !.items = s.cart[1].items \o @]),
                      !.loading = FALSE, !.error = Null]
      [] action.type = "CLEAR_CART" ->
            [s EXCEPT !.cart = Null]
      [] OTHER -> s

cartReducer_LoadingClearsError(s, action) ==
    CASE action.type = "SET_LOADING" ->
            [s EXCEPT !.loading = action.loading, !.error = Null]
      [] action.type = "SET_ERROR" ->
            [s EXCEPT !.error = Some(action.message), !.loading = FALSE]
      [] action.type = "SET_CART" ->
            [s EXCEPT !.cart = Some(action.cart), !.loading = FALSE, !.error = Null]
      [] action.type = "CLEAR_CART" ->
            [s EXCEPT !.cart = Null]
      [] OTHER -> s

cartReducer_ErrorKeepsLoading(s, action) ==
    CASE action.type = "SET_LOADING" ->
            [s EXCEPT !.loading = action.loading]
      [] action.type = "SET_ERROR" ->
            [s EXCEPT !.error = Some(action.message)]
      [] action.type = "SET_CART" ->
            [s EXCEPT !.cart = Some(action.cart), !.loading = FALSE, !.error = Null]
      [] action.type = "CLEAR_CART" ->
            [s EXCEPT !.cart = Null]
      [] OTHER -> s

cartReducer(s, action) ==
    CASE action.type = "SET_LOADING" ->
            [s EXCEPT !.loading = action.loading]
      [] action.type = "SET_ERROR" ->
            [s EXCEPT !.error = Some(action.message), !.loading = FALSE]
      [] action.type = "SET_CART" ->
            [s EXCEPT !.cart = Some(action.cart), !.loading = FALSE, !.error = Null]
      [] action.type = "CLEAR_CART" ->
            [s EXCEPT !.cart = Null]
      [] OTHER -> s

SET_LOADING(b) == [type |-> "SET_LOADING", loading |-> b]
SET_ERROR(m) == [type |-> "SET_ERROR", message |-> m]
SET_CART(c) == [type |-> "SET_CART", cart |-> c]

-----------------------------------------------------------------------------
(* API client: apiRequest *)

\* What the promise of apiRequest settles to, given what fetch produced.
\* resp.net = TRUE: fetch itself rejected (a TypeError).  Otherwise resp is the
\* service's answer: response.ok gives the JSON body, anything else throws
\* new Error(errorData.error?.message || `HTTP ${status}`).
apiRequest(resp) ==
    IF resp.net THEN [ok |-> FALSE, cart |-> Snapshot(<<>>), isError |-> TRUE,
                      message |-> "Failed to fetch"]
    ELSE IF ~resp.ok
         THEN [ok |-> FALSE, cart |-> Snapshot(<<>>), isError |-> TRUE,
               message |-> IF resp.message # "" THEN resp.message ELSE "HTTP error"]
         ELSE [ok |-> TRUE, cart |-> resp.cart, isError |-> FALSE, message |-> ""]

NoResp == [net |-> FALSE, ok |-> FALSE, cart |-> Snapshot(<<>>), message |-> ""]
NetError == [net |-> TRUE, ok |-> FALSE, cart |-> Snapshot(<<>>), message |-> ""]

-----------------------------------------------------------------------------
(* Cart context: the functions of CartProvider.                              *)
(* Each operator is the synchronous part of the function up to its await:    *)
(* the state it dispatches and the request (if any) it hands to apiRequest.  *)

NoSend(s) == [state |-> s, send |-> <<>>]
Send(s, req, fallback) ==
    [state |-> s, send |-> <<[req |-> req, fallback |-> fallback]>>]

refreshCart(s) ==
    Send(cartReducer(s, SET_LOADING(TRUE)), cartApi_getCart, "Failed to load cart")

addToCart_NoLoading(s, productId, quantity) ==
    IF quantity <= 0 THEN NoSend(s)
    ELSE Send(s, cartApi_addToCart(productId, quantity),
              "Failed to add item to cart")

addToCart_Optimistic(s, productId, quantity) ==
    IF quantity <= 0 THEN NoSend(s)
    ELSE Send([cartReducer(s, SET_LOADING(TRUE)) EXCEPT
                 !.cart = Some(Snapshot(
                     addItem(IF s.cart = Null THEN <<>>
                             ELSE [i \in 1..Len(s.cart[1].items) |->
                                     [product_id |-> s.cart[1].items[i].product_id,
                                      quantity |-> s.cart[1].items[i].quantity]],
                             productId, quantity).entries))],
              cartApi_addToCart(productId, quantity),
              "Failed to add item to cart")

addToCart_NoQuantityGuard(s, productId, quantity) ==
    Send(cartReducer(s, SET_LOADING(TRUE)),
         cartApi_addToCart(productId, quantity),
         "Failed to add item to cart")

addToCart(s, productId, quantity) ==
    IF quantity <= 0 THEN NoSend(s)
    ELSE Send(cartReducer(s, SET_LOADING(TRUE)),
              cartApi_addToCart(productId, quantity),
              "Failed to add item to cart")

removeFromCart(s, productId) ==
    Send(cartReducer(s, SET_LOADING(TRUE)),
         cartApi_removeFromCart(productId),
         "Failed to remove item from cart")

updateQuantity_NoGuard(s, productId, quantity) ==
    Send(cartReducer(s, SET_LOADING(TRUE)),
         cartApi_updateCartItem(productId, quantity),
         "Failed to update cart item")

updateQuantity(s, productId, quantity) ==
    IF quantity <= 0 THEN removeFromCart(s, productId)
    ELSE Send(cartReducer(s, SET_LOADING(TRUE)),
              cartApi_updateCartItem(productId, quantity),
              "Failed to update cart item")

\* The continuation after the await: try-branch on success, catch-branch on a throw.
\* errorMessage = error instanceof Error ? error.message : <fallback>
Settle(s, outcome, fallback) ==
    IF outcome.ok
    THEN cartReducer(s, SET_CART(outcome.cart))
    ELSE cartReducer(s, SET_ERROR(IF outcome.isError THEN outcome.message
                                  ELSE fallback))

getItemCount_WrongField(s) ==
    IF s.cart = Null THEN 0
    ELSE IF s.cart[1].subtotal = 0 THEN 0 ELSE s.cart[1].subtotal

getItemCount(s) ==
    IF s.cart = Null THEN 0
    ELSE IF s.cart[1].total_items = 0 THEN 0 ELSE s.cart[1].total_items

getCartTotal(s) ==
    IF s.cart = Null THEN 0
    ELSE IF s.cart[1].subtotal = 0 THEN 0 ELSE s.cart[1].subtotal

-----------------------------------------------------------------------------
(* Order totals: OrderSummary (cart page) and CheckoutSummary (checkout     *)
(* page).  Money is fixed-point: one unit is 1/10000 of a cent, so that the  *)
(* 8.75% tax of a whole number of cents is exact.                            *)

Units(cents) == cents * 10000

FreeShippingFrom == 75        \* dollars: subtotal >= 75
ShippingFeeCents == 599       \* 5.99
TaxRatePer10000 == 875        \* 0.0875

\* floor(a * n / d) without leaving 32-bit integers
MulDiv(a, n, d) == (a \div d) * n + ((a % d) * n) \div d

OrderSummary_StrictThreshold(subtotal) ==
    LET shipping == IF subtotal > Units(FreeShippingFrom * 100) THEN 0
                    ELSE Units(ShippingFeeCents)
        tax == MulDiv(subtotal, TaxRatePer10000, 10000)
        total == subtotal + shipping + tax
    IN [by |-> "OrderSummary", shipping |-> shipping, tax |-> tax, total |-> total]

\* subtotal in units
OrderSummary(subtotal) ==
    LET shipping == IF subtotal >= Units(FreeShippingFrom * 100) THEN 0
                    ELSE Units(ShippingFeeCents)
        tax == MulDiv(subtotal, TaxRatePer10000, 10000)
        total == subtotal + shipping + tax
    IN [by |-> "OrderSummary", shipping |-> shipping, tax |-> tax, total |-> total]

CheckoutSummary_NoFreeShipping(cartSubtotal) ==
    LET shipping == Units(ShippingFeeCents)
        tax == MulDiv(cartSubtotal, TaxRatePer10000, 10000)
        total == cartSubtotal + shipping + tax
    IN [by |-> "CheckoutSummary", shipping |-> shipping, tax |-> tax, total |-> total]

CheckoutSummary(cartSubtotal) ==
    LET shipping == IF cartSubtotal >= Units(FreeShippingFrom * 100) THEN 0
                    ELSE Units(ShippingFeeCents)
        tax == MulDiv(cartSubtotal, TaxRatePer10000, 10000)
        total == cartSubtotal + shipping + tax
    IN [by |-> "CheckoutSummary", shipping |-> shipping, tax |-> tax, total |-> total]

NoSummary == [by |-> "none", shipping |-> 0, tax |-> 0, total |-> 0]

-----------------------------------------------------------------------------
(* What the summary components display.  The components compute with         *)
(* JavaScript numbers and format every amount with formatPrice.              *)

\* JavaScript numbers are IEEE-754 doubles.  A double is held exactly, as a
\* natural number of units of 2^-120 written in limbs of 12 bits, least
\* significant limb first; every result of an arithmetic operation is
\* rounded to 53 significant bits, ties to even.

LimbBits == 12
Base == 2^LimbBits
FracLimbs == 10               \* 120 fractional bits
SignificandBits == 53

Limb(a, i) == IF i >= 1 /\ i <= Len(a) THEN a[i] ELSE 0

RECURSIVE Trim(_)
Trim(a) == IF Len(a) > 0 /\ a[Len(a)] = 0 THEN Trim(SubSeq(a, 1, Len(a) - 1)) ELSE a

Zeros(n) == [i \in 1..n |-> 0]

\* limbs of w with the carries propagated, from limb i on
RECURSIVE Carry(_, _, _)
Carry(w, i, c) ==
    IF i > Len(w)
    THEN IF c = 0 THEN <<>> ELSE <<c % Base>> \o Carry(w, i, c \div Base)
    ELSE <<(w[i] + c) % Base>> \o Carry(w, i + 1, (w[i] + c) \div Base)

BigAdd(a, b) ==
    LET n == IF Len(a) > Len(b) THEN Len(a) ELSE Len(b)
    IN Trim(Carry([i \in 1..n |-> Limb(a, i) + Limb(b, i)], 1, 0))

BigMulSmall(a, m) == Trim(Carry([i \in 1..Len(a) |-> a[i] * m], 1, 0))

RECURSIVE Column(_, _, _, _)
Column(a, b, k, i) ==
    IF i > Len(a) THEN 0
    ELSE Limb(a, i) * Limb(b, k - i + 1) + Column(a, b, k, i + 1)

BigMul(a, b) ==
    IF Len(a) = 0 \/ Len(b) = 0 THEN <<>>
    ELSE Trim(Carry([k \in 1..(Len(a) + Len(b) - 1) |-> Column(a, b, k, 1)], 1, 0))

\* quotient and remainder of a by the small number d, from limb i down
RECURSIVE BigDivSmall(_, _, _, _)
BigDivSmall(a, d, i, r) ==
    IF i = 0 THEN [q |-> <<>>, r |-> r]
    ELSE LET cur == r * Base + a[i]
             rest == BigDivSmall(a, d, i - 1, cur % d)
         IN [q |-> rest.q \o <<cur \div d>>, r |-> rest.r]

RECURSIVE ToInt(_)
ToInt(a) == IF Len(a) = 0 THEN 0 ELSE a[1] + Base * ToInt(Tail(a))

FromInt(n) == Trim(<<n % Base, (n \div Base) % Base, n \div (Base * Base)>>)

BitLen(a) ==
    IF Len(a) = 0 THEN 0
    ELSE LimbBits * (Len(a) - 1)
           + (CHOOSE n \in 1..LimbBits : 2^(n - 1) <= a[Len(a)] /\ a[Len(a)] < 2^n)

\* bit j of a, counted from 0
Bit(a, j) == (Limb(a, (j \div LimbBits) + 1) \div 2^(j % LimbBits)) % 2

AnyBitBelow(a, j) ==
    \/ \E i \in 1..(j \div LimbBits) : Limb(a, i) # 0
    \/ (Limb(a, j \div LimbBits + 1) % 2^(j % LimbBits)) # 0

ClearBelow(a, j) ==
    [i \in 1..Len(a) |->
        IF i <= j \div LimbBits THEN 0
        ELSE IF i = j \div LimbBits + 1 THEN a[i] - (a[i] % 2^(j % LimbBits))
        ELSE a[i]]

BigPow2(j) == Zeros(j \div LimbBits) \o <<2^(j % LimbBits)>>

\* a, followed by a non-zero tail if sticky, rounded to 53 significant bits
RoundToDouble(a, sticky) ==
    LET s == BitLen(a) - SignificandBits
    IN IF s <= 0 THEN a
       ELSE LET guard == Bit(a, s - 1) = 1
                rest == sticky \/ AnyBitBelow(a, s - 1)
                odd == Bit(a, s) = 1
                kept == ClearBelow(a, s)
            IN IF guard /\ (rest \/ odd) THEN BigAdd(kept, BigPow2(s)) ELSE kept

\* the double nearest to n / d: a decimal literal, or a number parsed from JSON
Double(n, d) ==
    LET num == Zeros(FracLimbs) \o FromInt(n)
        res == BigDivSmall(num, d, Len(num), 0)
    IN RoundToDouble(Trim(res.q), res.r # 0)

DoubleAdd(x, y) == RoundToDouble(BigAdd(x, y), FALSE)

\* The exact product has 2 * FracLimbs fractional limbs; the doubles that are
\* multiplied here have their lower FracLimbs \div 2 limbs zero.
DoubleMul(x, y) ==
    LET h == FracLimbs \div 2
        lo(a) == SubSeq(a, h + 1, Len(a))
    IN IF Len(x) = 0 \/ Len(y) = 0 THEN <<>>
       ELSE RoundToDouble(BigMul(lo(x), lo(y)), FALSE)

\* Math.floor(x)
Floor(x) == IF Len(x) <= FracLimbs THEN 0 ELSE ToInt(SubSeq(x, FracLimbs + 1, Len(x)))

\* `$${price.toFixed(2)}`, as the whole number of cents it shows: the
\* integer n for which n / 100 - price is closest to zero, the larger n of two.
formatPrice(price) ==
    LET scaled == BigAdd(BigMulSmall(price, 100), BigPow2(LimbBits * FracLimbs - 1))
    IN Floor(scaled)

\* OrderSummary's rows; the subtotal prop is the JSON number cents / 100.
\* Shipping is shown as FREE (0 here) when it is 0.
OrderSummaryView(cents) ==
    LET subtotal == Double(cents, 100)
        shipping == IF Floor(subtotal) >= FreeShippingFrom THEN <<>>
                    ELSE Double(ShippingFeeCents, 100)
        tax == DoubleMul(subtotal, Double(TaxRatePer10000, 10000))
        total == DoubleAdd(DoubleAdd(subtotal, shipping), tax)
    IN [by |-> "OrderSummary",
        subtotal |-> formatPrice(subtotal),
        shipping |-> IF shipping = <<>> THEN 0 ELSE formatPrice(shipping),
        tax |-> formatPrice(tax),
        total |-> formatPrice(total)]

\* CheckoutSummary's rows below the item list
CheckoutSummaryView(cents) ==
    LET subtotal == Double(cents, 100)
        shipping == IF Floor(subtotal) >= FreeShippingFrom THEN <<>>
                    ELSE Double(ShippingFeeCents, 100)
        tax == DoubleMul(subtotal, Double(TaxRatePer10000, 10000))
        total == DoubleAdd(DoubleAdd(subtotal, shipping), tax)
    IN [by |-> "CheckoutSummary",
        subtotal |-> formatPrice(subtotal),
        shipping |-> IF shipping = <<>> THEN 0 ELSE formatPrice(shipping),
        tax |-> formatPrice(tax),
        total |-> formatPrice(total)]

NoShown == [by |-> "none", subtotal |-> 0, shipping |-> 0, tax |-> 0, total |-> 0]

-----------------------------------------------------------------------------
(* Checkout page: the form's fields and their validation.  A field's value   *)
(* is a sequence of one-character strings.                                   *)

Fields == {"email", "phone", "name", "street", "city", "state", "zip",
           "cardNumber", "cardholderName", "expiryDate", "securityCode"}

\* every field of the form except phone
RequiredFields == Fields \ {"phone"}

EmptyForm == [f \in Fields |-> <<>>]
NoErrors == [f \in Fields |-> ""]

RequiredMessage(f) ==
    CASE f = "email"          -> "Email is required"
      [] f = "name"           -> "Full name is required"
      [] f = "street"         -> "Street address is required"
      [] f = "city"           -> "City is required"
      [] f = "state"          -> "State is required"
      [] f = "zip"            -> "ZIP code is required"
      [] f = "cardNumber"     -> "Card number is required"
      [] f = "cardholderName" -> "Cardholder name is required"
      [] f = "expiryDate"     -> "Expiry date is required"
      [] f = "securityCode"   -> "Security code is required"

IsDigit(ch) == ch \in {"0", "1", "2", "3", "4", "5", "6", "7", "8", "9"}

\* /^[^\s@]+@[^\s@]+\.[^\s@]+$/
EmailOk(e) ==
    LET ats == {i \in 1..Len(e) : e[i] = "@"}
    IN /\ Cardinality(ats) = 1
       /\ \A i \in 1..Len(e) : e[i] # " "
       /\ LET a == CHOOSE i \in ats : TRUE
          IN /\ a > 1
             /\ \E k \in (a + 2)..(Len(e) - 1) : e[k] = "."

\* /^\d{5}(-\d{4})?$/
ZipOk(z) ==
    \/ /\ Len(z) = 5
       /\ \A i \in 1..5 : IsDigit(z[i])
    \/ /\ Len(z) = 10
       /\ \A i \in 1..5 : IsDigit(z[i])
       /\ z[6] = "-"
       /\ \A i \in 7..10 : IsDigit(z[i])

validateForm_NoZipFormat(fd) ==
    LET newErrors ==
          [f \in Fields |->
             IF f = "email" /\ fd[f] # <<>> /\ ~EmailOk(fd[f])
               THEN "Please enter a valid email address"
             ELSE IF f \in RequiredFields /\ fd[f] = <<>> THEN RequiredMessage(f)
             ELSE ""]
    IN [errors |-> newErrors, valid |-> \A f \in Fields : newErrors[f] = ""]

\* newErrors and the value validateForm returns
validateForm(fd) ==
    LET newErrors ==
          [f \in Fields |->
             IF f = "email" /\ fd[f] # <<>> /\ ~EmailOk(fd[f])
               THEN "Please enter a valid email address"
             ELSE IF f = "zip" /\ fd[f] # <<>> /\ ~ZipOk(fd[f])
               THEN "Please enter a valid ZIP code"
             ELSE IF f \in RequiredFields /\ fd[f] = <<>> THEN RequiredMessage(f)
             ELSE ""]
    IN [errors |-> newErrors, valid |-> \A f \in Fields : newErrors[f] = ""]

\* cardNumber.slice(-4)
LastFour(cn) == IF Len(cn) <= 4 THEN cn ELSE SubSeq(cn, Len(cn) - 3, Len(cn))

CustomerInfo(fd) ==
    [name |-> fd["name"], email |-> fd["email"], phone |-> fd["phone"],
     shipping_address |-> [street |-> fd["street"], city |-> fd["city"],
                           state |-> fd["state"], zip |-> fd["zip"]]]

PaymentInfo(fd) == [method |-> "credit_card", last_four |-> LastFour(fd["cardNumber"])]

ordersApi_createOrder(customerInfo, paymentInfo) ==
    [method |-> "POST", path |-> "/orders",
     customer_info |-> customerInfo, payment_info |-> paymentInfo]

handleSubmit_NoCartCheck(cart, fd, errs) ==
    LET v == validateForm(fd)
    IN IF ~v.valid
       THEN [errors |-> v.errors, isSubmitting |-> FALSE, send |-> <<>>,
             alert |-> "", outcome |-> "invalid"]
       ELSE [errors |-> v.errors, isSubmitting |-> TRUE,
             send |-> <<ordersApi_createOrder(CustomerInfo(fd), PaymentInfo(fd))>>,
             alert |-> "", outcome |-> "sent"]

\* handleSubmit up to its await: the state it sets and the request it sends
handleSubmit(cart, fd, errs) ==
    IF cart = Null \/ Len(cart[1].items) = 0
    THEN [errors |-> errs, isSubmitting |-> FALSE, send |-> <<>>,
          alert |-> "Your cart is empty", outcome |-> "empty"]
    ELSE LET v == validateForm(fd)
         IN IF ~v.valid
            THEN [errors |-> v.errors, isSubmitting |-> FALSE, send |-> <<>>,
                  alert |-> "", outcome |-> "invalid"]
            ELSE [errors |-> v.errors, isSubmitting |-> TRUE,
                  send |-> <<ordersApi_createOrder(CustomerInfo(fd), PaymentInfo(fd))>>,
                  alert |-> "", outcome |-> "sent"]

\* What CheckoutPage renders: the spinner, the empty-cart notice or the form.
CheckoutView(s) ==
    IF s.loading THEN "loading"
    ELSE IF s.cart = Null \/ Len(s.cart[1].items) = 0 THEN "empty"
    ELSE "form"

NoSubmit == [n |-> 0, outcome |-> "none"]

FormIdle ==
    /\ formData = EmptyForm
    /\ errors = NoErrors
    /\ isSubmitting = FALSE
    /\ orderFlight = Null
    /\ submitted = NoSubmit
    /\ route = Null
    /\ alerted = ""

OrdersIdle ==
    /\ orders = <<>>
    /\ orderResult = [op |-> "none", id |-> 0, ok |-> TRUE, message |-> "",
                      order |-> Null]

-----------------------------------------------------------------------------
(* State machine *)

NoCall == [fn |-> "none", pid |-> NoPid, qty |-> 0]

\* No concurrent handlers are running on the service.
SerialIdle ==
    /\ lock = 0
    /\ handlers = <<>>
    /\ cartBefore = <<>>

NoListing ==
    [op |-> "none", params |-> [category |-> Null, page |-> Null, per_page |-> Null],
     result |-> [products |-> <<>>, total |-> 0, page |-> 1, per_page |-> DefaultPerPage]]

\* ProductsPage before it is opened.
ShopClosed ==
    [products |-> <<>>, selectedCategory |-> Null, filteredProducts |-> <<>>,
     loading |-> TRUE]

CatalogIdle ==
    /\ listing = NoListing
    /\ shop = ShopClosed

\* The detail page's selector shows 1 and no control awaits a request.
UiIdle == ui = [quantity |-> 1, busy |-> {}]

AuxIdle == SerialIdle /\ FormIdle /\ OrdersIdle /\ CatalogIdle /\ UiIdle

Init ==
    /\ state = initialState
    /\ serverCart = <<>>
    /\ inflight = {}
    /\ ncalls = 0
    /\ lastCall = NoCall
    /\ lastEv = "init"
    /\ lastResult = 0
    /\ nsvc = 0
    /\ svcResult = Ok(<<>>)
    /\ subtotalIn = 0
    /\ summary = NoSummary
    /\ shown = NoShown
    /\ AuxIdle

\* A context function is called with the given arguments; `r` is what its
\* synchronous part does.
Call(fn, pid, qty, r) ==
    /\ ncalls + nsvc < MaxCalls
    /\ r.send # <<>> => Cardinality(inflight) < MaxInflight
    /\ ncalls' = ncalls + 1
    /\ lastCall' = [fn |-> fn, pid |-> pid, qty |-> qty]
    /\ state' = r.state
    /\ inflight' = IF r.send = <<>> THEN inflight
                   ELSE inflight \cup
                        {[id |-> ncalls + 1, fn |-> fn, req |-> r.send[1].req,
                          fallback |-> r.send[1].fallback,
                          st |-> "sent", resp |-> NoResp]}
    /\ lastEv' = IF r.send = <<>> THEN "returned" ELSE "sent"
    /\ UNCHANGED <<serverCart, lastResult, nsvc, svcResult, totalsVars, auxVars>>

\* useEffect(() => { refreshCart() }, []) on mount, before any other call.
Mount ==
    /\ ncalls = 0
    /\ Call("refreshCart", NoPid, 0, refreshCart(state))

RefreshCart ==
    /\ ncalls > 0
    /\ Call("refreshCart", NoPid, 0, refreshCart(state))

AddToCart ==
    /\ ncalls > 0
    /\ \E p \in Products, q \in QtyArgs :
          Call("addToCart", p, q, addToCart(state, p, q))

UpdateQuantity ==
    /\ ncalls > 0
    /\ \E p \in Products, q \in QtyArgs :
          Call("updateQuantity", p, q, updateQuantity(state, p, q))

RemoveFromCart ==
    /\ ncalls > 0
    /\ \E p \in Products :
          Call("removeFromCart", p, 0, removeFromCart(state, p))

\* The Cart Service handles a request that reached it and answers.
ServerHandle ==
    \E r \in inflight :
        /\ r.st = "sent"
        /\ LET res == Serve(serverCart, r.req) IN
            /\ serverCart' = res.entries
            /\ inflight' = (inflight \ {r}) \cup
                 {[r EXCEPT !.st = "answered",
                            !.resp = [net |-> FALSE, ok |-> res.ok,
                                      cart |-> Snapshot(res.entries),
                                      message |-> res.message]]}
        /\ lastEv' = "served"
        /\ UNCHANGED <<state, ncalls, lastCall, lastResult, nsvc, svcResult, totalsVars, auxVars>>

\* The answer reaches the browser: apiRequest settles and the awaiting
\* context function continues.
Deliver ==
    \E r \in inflight :
        /\ r.st = "answered"
        /\ state' = Settle(state, apiRequest(r.resp), r.fallback)
        /\ inflight' = inflight \ {r}
        /\ lastEv' = IF apiRequest(r.resp).ok THEN "ok" ELSE "failed"
        /\ UNCHANGED <<serverCart, ncalls, lastCall, lastResult, nsvc, svcResult, totalsVars, auxVars>>

NetworkFail_Retry ==
    \E r \in inflight :
        /\ state' = state
        /\ inflight' = (inflight \ {r}) \cup {[r EXCEPT !.st = "sent", !.resp = NoResp]}
        /\ lastEv' = "failed"
        /\ UNCHANGED <<serverCart, ncalls, lastCall, lastResult, nsvc, svcResult, totalsVars, auxVars>>

\* fetch rejects: the request or its answer is lost on the network.
NetworkFail ==
    \E r \in inflight :
        /\ state' = Settle(state, apiRequest(NetError), r.fallback)
        /\ inflight' = inflight \ {r}
        /\ lastEv' = "failed"
        /\ UNCHANGED <<serverCart, ncalls, lastCall, lastResult, nsvc, svcResult, totalsVars, auxVars>>

\* A component reads the derived values (Header's CartIcon).
GetItemCount ==
    /\ ncalls > 0
    /\ ncalls + nsvc < MaxCalls
    /\ ncalls' = ncalls + 1
    /\ lastCall' = [fn |-> "getItemCount", pid |-> NoPid, qty |-> 0]
    /\ lastResult' = getItemCount(state)
    /\ lastEv' = "read"
    /\ UNCHANGED <<state, serverCart, inflight, nsvc, svcResult, totalsVars, auxVars>>

GetCartTotal ==
    /\ ncalls > 0
    /\ ncalls + nsvc < MaxCalls
    /\ ncalls' = ncalls + 1
    /\ lastCall' = [fn |-> "getCartTotal", pid |-> NoPid, qty |-> 0]
    /\ lastResult' = getCartTotal(state)
    /\ lastEv' = "read"
    /\ UNCHANGED <<state, serverCart, inflight, nsvc, svcResult, totalsVars, auxVars>>

Next ==
    \/ Mount
    \/ RefreshCart
    \/ AddToCart
    \/ UpdateQuantity
    \/ RemoveFromCart
    \/ ServerHandle
    \/ Deliver
    \/ NetworkFail
    \/ GetItemCount
    \/ GetCartTotal

Spec == Init /\ [][Next]_vars

\* Every remote call eventually succeeds or fails: the service answers a
\* request it has received, and an answer on the wire reaches the awaiting
\* function (or fetch rejects, which NetworkFail may do at any time).
Fairness == WF_vars(ServerHandle) /\ WF_vars(Deliver)

\* The four context functions, called for one product.
LiveProduct == "p1"
LiveQtys == {0, 1}

LiveAddToCart ==
    /\ ncalls > 0
    /\ \E q \in LiveQtys :
          Call("addToCart", LiveProduct, q, addToCart(state, LiveProduct, q))

LiveUpdateQuantity ==
    /\ ncalls > 0
    /\ \E q \in LiveQtys :
          Call("updateQuantity", LiveProduct, q, updateQuantity(state, LiveProduct, q))

LiveRemoveFromCart ==
    /\ ncalls > 0
    /\ Call("removeFromCart", LiveProduct, 0, removeFromCart(state, LiveProduct))

NextLive ==
    \/ Mount
    \/ RefreshCart
    \/ LiveAddToCart
    \/ LiveUpdateQuantity
    \/ LiveRemoveFromCart
    \/ ServerHandle
    \/ Deliver
    \/ NetworkFail

SpecLive == Init /\ [][NextLive]_vars /\ Fairness

-----------------------------------------------------------------------------
(* The Cart Service called directly (any HTTP client holding the session    *)
(* cookie, as in the backend README's curl examples), with arbitrary        *)
(* arguments.                                                                *)

SvcPids == Products \cup {UnknownProduct}
SvcQtys == (-1)..MaxQtyArg

SvcApply(entries, op, pid, q) ==
    CASE op = "getCart"     -> getCart(entries)
      [] op = "addItem"     -> addItem(entries, pid, q)
      [] op = "setQuantity" -> setQuantity(entries, pid, q)
      [] op = "removeItem"  -> removeItem(entries, pid)

SvcCall(op, pid, q) ==
    /\ nsvc < MaxSvcCalls
    /\ ncalls + nsvc < MaxCalls
    /\ nsvc' = nsvc + 1
    /\ svcResult' = SvcApply(serverCart, op, pid, q)
    /\ serverCart' = SvcApply(serverCart, op, pid, q).entries
    /\ lastCall' = [fn |-> op, pid |-> pid, qty |-> q]
    /\ lastEv' = "svc"
    /\ UNCHANGED <<state, inflight, ncalls, lastResult, totalsVars, auxVars>>

SvcGetCart == SvcCall("getCart", NoPid, 0)
SvcAddItem == \E p \in SvcPids, q \in SvcQtys : SvcCall("addItem", p, q)
SvcSetQuantity == \E p \in SvcPids, q \in SvcQtys : SvcCall("setQuantity", p, q)
SvcRemoveItem == \E p \in SvcPids : SvcCall("removeItem", p, 0)

NextService ==
    \/ Next
    \/ SvcGetCart
    \/ SvcAddItem
    \/ SvcSetQuantity
    \/ SvcRemoveItem

SpecService == Init /\ [][NextService]_vars

-----------------------------------------------------------------------------
(* The summary components applied to every subtotal of whole cents.          *)

InitTotals ==
    /\ state = initialState
    /\ serverCart = <<>>
    /\ inflight = {}
    /\ ncalls = 0
    /\ lastCall = NoCall
    /\ lastEv = "init"
    /\ lastResult = 0
    /\ nsvc = 0
    /\ svcResult = Ok(<<>>)
    /\ subtotalIn \in 0..MaxSubtotalCents
    /\ summary = NoSummary
    /\ shown = NoShown
    /\ AuxIdle

RenderOrderSummary ==
    /\ summary' = OrderSummary(Units(subtotalIn))
    /\ shown' = OrderSummaryView(subtotalIn)
    /\ UNCHANGED <<cartVars, subtotalIn, auxVars>>

RenderCheckoutSummary ==
    /\ summary' = CheckoutSummary(Units(subtotalIn))
    /\ shown' = CheckoutSummaryView(subtotalIn)
    /\ UNCHANGED <<cartVars, subtotalIn, auxVars>>

NextTotals ==
    \/ RenderOrderSummary
    \/ RenderCheckoutSummary

SpecTotals == InitTotals /\ [][NextTotals]_vars

-----------------------------------------------------------------------------
(* Concurrent mutations of one session on the Cart Service (specification    *)
(* section 5): each handler takes the session's mutex, reads the cart,       *)
(* writes the updated cart back and releases the mutex.                      *)

SerialQtys == 1..(MaxQtyArg + 1)

SerialCarts ==
    {<<>>} \cup {<<[product_id |-> "p1", quantity |-> q]>> : q \in SerialQtys}

NewHandler(pid, qty) == [pc |-> "start", pid |-> pid, qty |-> qty, seen |-> <<>>]

InitSerial ==
    /\ state = initialState
    /\ inflight = {}
    /\ ncalls = 0
    /\ lastCall = NoCall
    /\ lastEv = "init"
    /\ lastResult = 0
    /\ nsvc = 0
    /\ svcResult = Ok(<<>>)
    /\ subtotalIn = 0
    /\ summary = NoSummary
    /\ shown = NoShown
    /\ serverCart \in SerialCarts
    /\ cartBefore = serverCart
    /\ FormIdle
    /\ OrdersIdle
    /\ CatalogIdle
    /\ UiIdle
    /\ lock = 0
    /\ handlers \in [1..NumHandlers ->
                       {NewHandler(pid, qty) : pid \in Products, qty \in SerialQtys}]

CanAcquire_NoMutex(l) == TRUE

CanAcquire(l) == l = 0

SerialFrame ==
    UNCHANGED <<state, inflight, ncalls, lastCall, lastEv, lastResult, nsvc,
                svcResult, totalsVars, cartBefore, formVars, orderVars, catalogVars, uiVars>>

Acquire(h) ==
    /\ handlers[h].pc = "start"
    /\ CanAcquire(lock)
    /\ lock' = h
    /\ handlers' = [handlers EXCEPT ![h].pc = "locked"]
    /\ UNCHANGED serverCart
    /\ SerialFrame

Load(h) ==
    /\ handlers[h].pc = "locked"
    /\ handlers' = [handlers EXCEPT ![h].pc = "loaded", ![h].seen = serverCart]
    /\ UNCHANGED <<serverCart, lock>>
    /\ SerialFrame

Store(h) ==
    /\ handlers[h].pc = "loaded"
    /\ serverCart' = addItem(handlers[h].seen, handlers[h].pid, handlers[h].qty).entries
    /\ handlers' = [handlers EXCEPT ![h].pc = "stored"]
    /\ UNCHANGED lock
    /\ SerialFrame

Release(h) ==
    /\ handlers[h].pc = "stored"
    /\ lock' = IF lock = h THEN 0 ELSE lock
    /\ handlers' = [handlers EXCEPT ![h].pc = "done"]
    /\ UNCHANGED serverCart
    /\ SerialFrame

NextSerial ==
    \/ \E h \in 1..NumHandlers : Acquire(h)
    \/ \E h \in 1..NumHandlers : Load(h)
    \/ \E h \in 1..NumHandlers : Store(h)
    \/ \E h \in 1..NumHandlers : Release(h)

SpecSerial == InitSerial /\ [][NextSerial]_vars

-----------------------------------------------------------------------------
(* Order Service (specification section 4.3)                                 *)

ProductName(pid) == IF pid = "p1" THEN "House Blend" ELSE "Dark Roast"

OrderLines(entries) ==
    [i \in 1..Len(entries) |->
       [product_id   |-> entries[i].product_id,
        product_name |-> ProductName(entries[i].product_id),
        quantity     |-> entries[i].quantity,
        price        |-> Price(entries[i].product_id),
        subtotal     |-> entries[i].quantity * Price(entries[i].product_id)]]

\* required customer fields present, email and postal code well-formed
ValidCustomer(ci) ==
    /\ ci.name # <<>>
    /\ EmailOk(ci.email)
    /\ ci.shipping_address.street # <<>>
    /\ ci.shipping_address.city # <<>>
    /\ ci.shipping_address.state # <<>>
    /\ ZipOk(ci.shipping_address.zip)

NewOrder(entries, store, ci, pi) ==
    LET subtotal == Units(SumPrice(entries))
        shipping == IF subtotal >= Units(FreeShippingFrom * 100) THEN 0
                    ELSE Units(ShippingFeeCents)
        tax == MulDiv(subtotal, TaxRatePer10000, 10000)
    IN [id |-> Len(store) + 1,
        items |-> OrderLines(entries),
        customer_info |-> ci,
        payment_info |-> pi,
        subtotal |-> subtotal,
        shipping |-> shipping,
        tax |-> tax,
        total |-> subtotal + shipping + tax,
        status |-> "pending",
        tracking_number |-> Null]

OrderErr(store, entries, msg) ==
    [ok |-> FALSE, message |-> msg, order |-> Null, store |-> store, entries |-> entries]

createOrder_AcceptsEmptyCart(entries, store, ci, pi) ==
    IF ~ValidCustomer(ci) THEN OrderErr(store, entries, "ValidationError")
    ELSE [ok |-> TRUE, message |-> "", order |-> Some(NewOrder(entries, store, ci, pi)),
          store |-> Append(store, NewOrder(entries, store, ci, pi)),
          entries |-> entries]

\* The result, the store and the session's cart after createOrder.
createOrder(entries, store, ci, pi) ==
    IF entries = <<>> THEN OrderErr(store, entries, "EmptyCart")
    ELSE IF ~ValidCustomer(ci) THEN OrderErr(store, entries, "ValidationError")
    ELSE [ok |-> TRUE, message |-> "", order |-> Some(NewOrder(entries, store, ci, pi)),
          store |-> Append(store, NewOrder(entries, store, ci, pi)),
          entries |-> entries]

getOrder_Latest(store, id) ==
    IF store # <<>>
    THEN [ok |-> TRUE, message |-> "", order |-> Some(store[Len(store)])]
    ELSE [ok |-> FALSE, message |-> "NotFound", order |-> Null]

getOrder(store, id) ==
    IF id \in 1..Len(store)
    THEN [ok |-> TRUE, message |-> "", order |-> Some(store[id])]
    ELSE [ok |-> FALSE, message |-> "NotFound", order |-> Null]

-----------------------------------------------------------------------------
(* Checkout page: submitting the form, and the order request it sends.       *)

ValidForm ==
    [f \in Fields |->
       CASE f = "email"      -> <<"a", "@", "b", ".", "c">>
         [] f = "zip"        -> <<"1", "2", "3", "4", "5">>
         [] f = "phone"      -> <<>>
         [] f = "cardNumber" -> <<"4", "2", "4", "2", "1">>
         [] OTHER            -> <<"x">>]

BadZipForm == [ValidForm EXCEPT !["zip"] = <<"1", "2", "3", "4">>]

NoOrderResp == [net |-> FALSE, ok |-> FALSE, message |-> "", order |-> Null]

\* The session's cart, and the snapshot of it the cart context holds.
CheckoutCarts ==
    {<<>>,
     <<[product_id |-> "p1", quantity |-> 2]>>,
     <<[product_id |-> "p1", quantity |-> 1], [product_id |-> "p2", quantity |-> 1]>>}

Cached(entries) == [cart |-> Some(Snapshot(entries)), loading |-> FALSE, error |-> Null]

HandleSubmit_NoDisable ==
    /\ CheckoutView(state) = "form"
    /\ submitted.n < MaxSubmits
    /\ LET r == handleSubmit(state.cart, formData, errors)
       IN /\ errors' = r.errors
          /\ isSubmitting' = (isSubmitting \/ r.isSubmitting)
          /\ orderFlight' = IF r.send = <<>> THEN orderFlight
                            ELSE Some([req |-> r.send[1], st |-> "sent",
                                       resp |-> NoOrderResp])
          /\ alerted' = IF r.alert # "" THEN r.alert ELSE alerted
          /\ submitted' = [n |-> submitted.n + 1, outcome |-> r.outcome]
    /\ UNCHANGED <<formData, route, cartVars, totalsVars, serialVars, orderVars, catalogVars, uiVars>>

\* form onSubmit={handleSubmit}; the form is rendered only in the "form" view
\* and its submit button is disabled while isSubmitting.
HandleSubmit ==
    /\ CheckoutView(state) = "form"
    /\ ~isSubmitting
    /\ submitted.n < MaxSubmits
    /\ LET r == handleSubmit(state.cart, formData, errors)
       IN /\ errors' = r.errors
          /\ isSubmitting' = r.isSubmitting
          /\ orderFlight' = IF r.send = <<>> THEN orderFlight
                            ELSE Some([req |-> r.send[1], st |-> "sent",
                                       resp |-> NoOrderResp])
          /\ alerted' = IF r.alert # "" THEN r.alert ELSE alerted
          /\ submitted' = [n |-> submitted.n + 1, outcome |-> r.outcome]
    /\ UNCHANGED <<formData, route, cartVars, totalsVars, serialVars, orderVars, catalogVars, uiVars>>

\* POST /api/orders reaches the Order Service.
OrderServe ==
    /\ orderFlight # Null
    /\ orderFlight[1].st = "sent"
    /\ LET q == orderFlight[1].req
           res == createOrder(serverCart, orders, q.customer_info, q.payment_info)
       IN /\ orders' = res.store
          /\ serverCart' = res.entries
          /\ orderFlight' = Some([orderFlight[1] EXCEPT
                                    !.st = "answered",
                                    !.resp = [net |-> FALSE, ok |-> res.ok,
                                              message |-> res.message,
                                              order |-> res.order]])
    /\ UNCHANGED <<state, inflight, ncalls, lastCall, lastEv, lastResult, nsvc,
                   svcResult, totalsVars, serialVars, formData, errors,
                   isSubmitting, submitted, route, alerted, orderResult, catalogVars, uiVars>>

handleSubmitSettle_ClearsCart(s, resp) ==
    IF ~resp.net /\ resp.ok
    THEN [state |-> cartReducer(s, [type |-> "CLEAR_CART"]),
          route |-> Some(resp.order[1].id), alert |-> "", isSubmitting |-> FALSE]
    ELSE [state |-> s, route |-> Null,
          alert |-> "There was an error processing your order. Please try again.",
          isSubmitting |-> FALSE]

\* handleSubmit after its await: router.push on success, alert in catch,
\* setIsSubmitting(false) in finally.
handleSubmitSettle(s, resp) ==
    IF ~resp.net /\ resp.ok
    THEN [state |-> s, route |-> Some(resp.order[1].id), alert |-> "",
          isSubmitting |-> FALSE]
    ELSE [state |-> s, route |-> Null,
          alert |-> "There was an error processing your order. Please try again.",
          isSubmitting |-> FALSE]

OrderSettle(resp) ==
    LET r == handleSubmitSettle(state, resp)
    IN /\ state' = r.state
       /\ route' = IF r.route # Null THEN r.route ELSE route
       /\ alerted' = IF r.alert # "" THEN r.alert ELSE alerted
       /\ isSubmitting' = r.isSubmitting
       /\ orderFlight' = Null
       /\ UNCHANGED <<serverCart, inflight, ncalls, lastCall, lastEv, lastResult,
                      nsvc, svcResult, totalsVars, serialVars, formData, errors,
                      submitted, orderVars, catalogVars, uiVars>>

\* The answer of POST /api/orders reaches the browser.
OrderDeliver ==
    /\ orderFlight # Null
    /\ orderFlight[1].st = "answered"
    /\ OrderSettle(orderFlight[1].resp)

\* fetch rejects: the order request or its answer is lost on the network.
OrderNetworkFail ==
    /\ orderFlight # Null
    /\ OrderSettle([NoOrderResp EXCEPT !.net = TRUE])

\* The Order Service called directly with the session cookie.
OrdCreateOrder ==
    \E fd \in {ValidForm, BadZipForm} :
        /\ Len(orders) < MaxOrders
        /\ LET res == createOrder(serverCart, orders, CustomerInfo(fd), PaymentInfo(fd))
           IN /\ orders' = res.store
              /\ serverCart' = res.entries
              /\ orderResult' = [op |-> "createOrder", id |-> 0, ok |-> res.ok,
                                 message |-> res.message, order |-> res.order]
        /\ UNCHANGED <<state, inflight, ncalls, lastCall, lastEv, lastResult, nsvc,
                       svcResult, totalsVars, serialVars, formVars, catalogVars, uiVars>>

OrdGetOrder ==
    \E id \in 0..(MaxOrders + 1) :
        /\ orderResult' = [op |-> "getOrder", id |-> id, ok |-> getOrder(orders, id).ok,
                           message |-> getOrder(orders, id).message,
                           order |-> getOrder(orders, id).order]
        /\ UNCHANGED <<cartVars, totalsVars, serialVars, formVars, orders, catalogVars, uiVars>>

\* The session's cart is changed by another client of the same session.
CartMutation ==
    \E op \in {"addItem", "setQuantity", "removeItem"}, p \in Products, q \in 1..MaxQtyArg :
        /\ nsvc < MaxSvcCalls
        /\ nsvc' = nsvc + 1
        /\ serverCart' = SvcApply(serverCart, op, p, q).entries
        /\ UNCHANGED <<state, inflight, ncalls, lastCall, lastEv, lastResult,
                       svcResult, totalsVars, auxVars>>

InitCheckout ==
    /\ serverCart \in CheckoutCarts
    /\ state \in {initialState} \cup {Cached(c) : c \in CheckoutCarts}
    /\ formData \in {EmptyForm, ValidForm, BadZipForm}
    /\ inflight = {}
    /\ ncalls = 0
    /\ lastCall = NoCall
    /\ lastEv = "init"
    /\ lastResult = 0
    /\ nsvc = 0
    /\ svcResult = Ok(<<>>)
    /\ subtotalIn = 0
    /\ summary = NoSummary
    /\ shown = NoShown
    /\ SerialIdle
    /\ OrdersIdle
    /\ CatalogIdle
    /\ UiIdle
    /\ errors = NoErrors
    /\ isSubmitting = FALSE
    /\ orderFlight = Null
    /\ submitted = NoSubmit
    /\ route = Null
    /\ alerted = ""

NextCheckout ==
    \/ HandleSubmit
    \/ OrderServe
    \/ OrderDeliver
    \/ OrderNetworkFail
    \/ OrdCreateOrder
    \/ OrdGetOrder
    \/ CartMutation

SpecCheckout == InitCheckout /\ [][NextCheckout]_vars

-----------------------------------------------------------------------------
(* handleSubmit applied to every form content.                               *)

EmailValues ==
    {<<>>,
     <<"a", "@", "b", ".", "c">>,
     <<"a", "@", "b">>,
     <<"a", " ", "@", "b", ".", "c">>,
     <<"a", "@", "b", "@", "c", ".", "d">>,
     <<"a", "@", ".", "c">>}

ZipValues ==
    {<<>>,
     <<"1", "2", "3", "4", "5">>,
     <<"1", "2", "3", "4">>,
     <<"1", "2", "3", "4", "5", "-", "6", "7", "8", "9">>,
     <<"1", "2", "3", "4", "5", "-", "6", "7", "8">>,
     <<"1", "2", "3", "4", "a">>}

TextValues == {<<>>, <<"x">>}

FormDatas ==
    {[email |-> e, zip |-> z, phone |-> ph, name |-> n, street |-> st, city |-> ci,
      state |-> sa, cardNumber |-> cn, cardholderName |-> ch, expiryDate |-> ex,
      securityCode |-> sc] :
        e \in EmailValues, z \in ZipValues, ph \in TextValues, n \in TextValues,
        st \in TextValues, ci \in TextValues, sa \in TextValues,
        cn \in {<<>>, <<"4", "2", "4", "2", "1">>}, ch \in TextValues,
        ex \in TextValues, sc \in TextValues}

InitForm ==
    /\ serverCart = <<[product_id |-> "p1", quantity |-> 1]>>
    /\ state \in {Cached(serverCart), Cached(<<>>)}
    /\ formData \in FormDatas
    /\ inflight = {}
    /\ ncalls = 0
    /\ lastCall = NoCall
    /\ lastEv = "init"
    /\ lastResult = 0
    /\ nsvc = 0
    /\ svcResult = Ok(<<>>)
    /\ subtotalIn = 0
    /\ summary = NoSummary
    /\ shown = NoShown
    /\ SerialIdle
    /\ OrdersIdle
    /\ CatalogIdle
    /\ UiIdle
    /\ errors = NoErrors
    /\ isSubmitting = FALSE
    /\ orderFlight = Null
    /\ submitted = NoSubmit
    /\ route = Null
    /\ alerted = ""

NextForm == HandleSubmit

SpecForm == InitForm /\ [][NextForm]_vars

-----------------------------------------------------------------------------
(* Catalog Service (specification section 4.1) and the products page.        *)

\* The products in load order.
Catalog ==
    <<[id |-> "p1", category |-> "beans",  in_stock |-> TRUE],
      [id |-> "p2", category |-> "ground", in_stock |-> TRUE],
      [id |-> "p3", category |-> "beans",  in_stock |-> FALSE],
      [id |-> "p4", category |-> "pods",   in_stock |-> TRUE],
      [id |-> "p5", category |-> "beans",  in_stock |-> TRUE]>>

CategoryIds == {"beans", "ground", "pods"}

Min(a, b) == IF a < b THEN a ELSE b

listProducts_NoCategoryFilter(query) ==
    LET page == IF query.page = Null THEN 1 ELSE query.page[1]
        asked == IF query.per_page = Null THEN DefaultPerPage ELSE query.per_page[1]
        perPage == Min(asked, MaxPerPage)
        matching == Catalog
    IN [products |-> SubSeq(matching, (page - 1) * perPage + 1,
                            Min(page * perPage, Len(matching))),
        total |-> Len(matching), page |-> page, per_page |-> perPage]

\* GET /api/products with the query's category, page and per_page, if present
listProducts(query) ==
    LET page == IF query.page = Null THEN 1 ELSE query.page[1]
        asked == IF query.per_page = Null THEN DefaultPerPage ELSE query.per_page[1]
        perPage == Min(asked, MaxPerPage)
        matching == IF query.category = Null THEN Catalog
                    ELSE SelectSeq(Catalog, LAMBDA p : p.category = query.category[1])
    IN [products |-> SubSeq(matching, (page - 1) * perPage + 1,
                            Min(page * perPage, Len(matching))),
        total |-> Len(matching), page |-> page, per_page |-> perPage]

\* The query string productsApi.getProducts builds: a parameter is set only
\* if it is truthy.
productsApi_getProducts(params) ==
    [category |-> IF params.category # Null /\ params.category[1] # ""
                  THEN params.category ELSE Null,
     page     |-> IF params.page # Null /\ params.page[1] # 0
                  THEN params.page ELSE Null,
     per_page |-> IF params.per_page # Null /\ params.per_page[1] # 0
                  THEN params.per_page ELSE Null]

NoParams == [category |-> Null, page |-> Null, per_page |-> Null]

filterProducts_IgnoresSelection(products, selectedCategory) == products

\* The effect on [products, selectedCategory]: what setFilteredProducts gets.
filterProducts(products, selectedCategory) ==
    IF selectedCategory # Null /\ selectedCategory[1] # ""
    THEN SelectSeq(products, LAMBDA product : product.category = selectedCategory[1])
    ELSE products

\* searchParams.get('category'): absent, empty, a category, or anything else
InitialCategories == {Null, Some("")} \cup {Some(c) : c \in CategoryIds \cup {"tea"}}

CategoryArgs == {Null, Some("")} \cup {Some(c) : c \in CategoryIds \cup {"tea"}}
PageArgs == {Null} \cup {Some(n) : n \in 0..MaxPageArg}
PerPageArgs == {Null} \cup {Some(n) : n \in (0..MaxPerPageArg) \cup {MaxPerPage, MaxPerPage + 1}}

InitCatalog ==
    /\ state = initialState
    /\ serverCart = <<>>
    /\ inflight = {}
    /\ ncalls = 0
    /\ lastCall = NoCall
    /\ lastEv = "init"
    /\ lastResult = 0
    /\ nsvc = 0
    /\ svcResult = Ok(<<>>)
    /\ subtotalIn = 0
    /\ summary = NoSummary
    /\ shown = NoShown
    /\ SerialIdle
    /\ FormIdle
    /\ OrdersIdle
    /\ UiIdle
    /\ listing = NoListing
    /\ shop \in {[ShopClosed EXCEPT !.selectedCategory = c] : c \in InitialCategories}

CatalogFrame == UNCHANGED <<cartVars, totalsVars, serialVars, formVars, orderVars, uiVars>>

\* productsApi.getProducts(params) answered by the Catalog Service.
GetProducts ==
    \E c \in CategoryArgs, pg \in PageArgs, pp \in PerPageArgs :
        LET params == [category |-> c, page |-> pg, per_page |-> pp]
        IN /\ listing' = [op |-> "listProducts", params |-> params,
                          result |-> listProducts(productsApi_getProducts(params))]
           /\ UNCHANGED shop
           /\ CatalogFrame

\* loadData succeeds: setProducts, setLoading(false), then the filter effect.
LoadData ==
    /\ shop.loading
    /\ LET loaded == listProducts(productsApi_getProducts(NoParams)).products
       IN shop' = [shop EXCEPT
                     !.products = loaded,
                     !.loading = FALSE,
                     !.filteredProducts = filterProducts(loaded, shop.selectedCategory)]
    /\ UNCHANGED listing
    /\ CatalogFrame

\* loadData fails: setError, setLoading(false); products stay empty.
LoadDataFails ==
    /\ shop.loading
    /\ shop' = [shop EXCEPT
                  !.loading = FALSE,
                  !.filteredProducts = filterProducts(shop.products, shop.selectedCategory)]
    /\ UNCHANGED listing
    /\ CatalogFrame

\* CategoryFilter's buttons: "All" passes null, a category button its id;
\* then the filter effect.
HandleCategoryChange ==
    \E c \in {Null} \cup {Some(id) : id \in CategoryIds} :
        /\ ~shop.loading
        /\ shop' = [shop EXCEPT
                      !.selectedCategory = c,
                      !.filteredProducts = filterProducts(shop.products, c)]
        /\ UNCHANGED listing
        /\ CatalogFrame

NextCatalog ==
    \/ GetProducts
    \/ LoadData
    \/ LoadDataFails
    \/ HandleCategoryChange

SpecCatalog == InitCatalog /\ [][NextCatalog]_vars

-----------------------------------------------------------------------------
(* The controls that change the cart: the product detail page (quantity      *)
(* selector and Add to Cart), the product cards, and the cart items          *)
(* (quantity selector and Remove).  ui.busy holds, for every control whose   *)
(* handler awaits a cart request, [kind, pid, id] with the request's id.     *)

DetailProduct == "p1"

\* products shown as cards: one in stock, one out of stock
CardProducts == {"p1", "p3"}

InStock(pid) == \E i \in 1..Len(Catalog) : Catalog[i].id = pid /\ Catalog[i].in_stock

Busy(kind, pid) == \E b \in ui.busy : b.kind = kind /\ b.pid = pid

CachedItems(s) == IF s.cart = Null THEN <<>> ELSE s.cart[1].items

\* QuantitySelector: handleDecrease / handleIncrease
handleDecrease(quantity) == IF quantity > 1 THEN quantity - 1 ELSE quantity

handleIncrease(quantity) == IF quantity < QuantityMax THEN quantity + 1 ELSE quantity

UiFrame == UNCHANGED <<totalsVars, serialVars, formVars, orderVars, catalogVars>>

DetailDecrease ==
    /\ ui' = [ui EXCEPT !.quantity = handleDecrease(ui.quantity)]
    /\ UNCHANGED cartVars
    /\ UiFrame

DetailIncrease ==
    /\ ui' = [ui EXCEPT !.quantity = handleIncrease(ui.quantity)]
    /\ UNCHANGED cartVars
    /\ UiFrame

\* A handler sets its busy flag and awaits the context function.
UiCall(kind, fn, pid, qty, r) ==
    /\ ncalls > 0
    /\ ncalls + nsvc < MaxCalls
    /\ r.send # <<>>
    /\ Cardinality(inflight) < MaxInflight
    /\ ncalls' = ncalls + 1
    /\ lastCall' = [fn |-> fn, pid |-> pid, qty |-> qty]
    /\ state' = r.state
    /\ inflight' = inflight \cup
                     {[id |-> ncalls + 1, fn |-> fn, req |-> r.send[1].req,
                       fallback |-> r.send[1].fallback,
                       st |-> "sent", resp |-> NoResp]}
    /\ lastEv' = "sent"
    /\ ui' = [ui EXCEPT !.busy = @ \cup {[kind |-> kind, pid |-> pid, id |-> ncalls + 1]}]
    /\ UNCHANGED <<serverCart, lastResult, nsvc, svcResult>>
    /\ UiFrame

\* ProductDetailPage.handleAddToCart
DetailAddToCart ==
    /\ ~Busy("detail", DetailProduct)
    /\ InStock(DetailProduct)
    /\ UiCall("detail", "addToCart", DetailProduct, ui.quantity,
              addToCart(state, DetailProduct, ui.quantity))

CardAddToCart_NoGuard ==
    \E p \in CardProducts :
        UiCall("card", "addToCart", p, 1, addToCart(state, p, 1))

\* ProductCard.handleAddToCart
CardAddToCart ==
    \E p \in CardProducts :
        /\ ~Busy("card", p)
        /\ InStock(p)
        /\ UiCall("card", "addToCart", p, 1, addToCart(state, p, 1))

\* CartItem.handleQuantityChange from the item's quantity selector
ItemQuantityChange ==
    \E i \in 1..Len(CachedItems(state)) :
        LET item == CachedItems(state)[i]
        IN \E newQuantity \in {handleDecrease(item.quantity), handleIncrease(item.quantity)} :
              /\ newQuantity # item.quantity
              /\ ~Busy("itemQuantity", item.product_id)
              /\ UiCall("itemQuantity", "updateQuantity", item.product_id, newQuantity,
                        updateQuantity(state, item.product_id, newQuantity))

\* CartItem.handleRemove
ItemRemove ==
    \E i \in 1..Len(CachedItems(state)) :
        LET item == CachedItems(state)[i]
        IN /\ ~Busy("itemRemove", item.product_id)
           /\ UiCall("itemRemove", "removeFromCart", item.product_id, 0,
                     removeFromCart(state, item.product_id))

\* The awaiting handler continues once the context function has returned:
\* the detail page resets its quantity and clears its flag, a card and an
\* item's selector clear their flag, handleRemove leaves isRemoving set; the
\* flags of an item that is no longer rendered are gone.
UiContinue(u, id, s) ==
    LET done == {b \in u.busy : b.id = id}
        kept == (u.busy \ done)
                  \cup {[b EXCEPT !.id = 0] : b \in {d \in done : d.kind = "itemRemove"}}
        rendered == {b \in kept :
                       b.kind \in {"itemQuantity", "itemRemove"} =>
                           \E i \in 1..Len(CachedItems(s)) :
                               CachedItems(s)[i].product_id = b.pid}
    IN [quantity |-> IF \E b \in done : b.kind = "detail" THEN 1 ELSE u.quantity,
        busy |-> rendered]

UiSettle(r, resp) ==
    /\ state' = Settle(state, apiRequest(resp), r.fallback)
    /\ inflight' = inflight \ {r}
    /\ lastEv' = IF apiRequest(resp).ok THEN "ok" ELSE "failed"
    /\ ui' = UiContinue(ui, r.id, state')
    /\ UNCHANGED <<serverCart, ncalls, lastCall, lastResult, nsvc, svcResult>>
    /\ UiFrame

UiDeliver == \E r \in inflight : r.st = "answered" /\ UiSettle(r, r.resp)

UiNetworkFail == \E r \in inflight : UiSettle(r, NetError)

\* The cart context has mounted and its refreshCart has loaded the empty cart.
InitUi ==
    /\ state = Cached(<<>>)
    /\ serverCart = <<>>
    /\ inflight = {}
    /\ ncalls = 1
    /\ lastCall = [fn |-> "refreshCart", pid |-> NoPid, qty |-> 0]
    /\ lastEv = "ok"
    /\ lastResult = 0
    /\ nsvc = 0
    /\ svcResult = Ok(<<>>)
    /\ subtotalIn = 0
    /\ summary = NoSummary
    /\ shown = NoShown
    /\ AuxIdle

NextUi ==
    \/ DetailDecrease
    \/ DetailIncrease
    \/ DetailAddToCart
    \/ CardAddToCart
    \/ ItemQuantityChange
    \/ ItemRemove
    \/ ServerHandle
    \/ UiDeliver
    \/ UiNetworkFail

SpecUi == InitUi /\ [][NextUi]_vars

-----------------------------------------------------------------------------
(* The whole client on the checkout page: the cart context (mounted by the   *)
(* layout, refreshed, and changed from the header's cart) together with the  *)
(* checkout form and its order request.                                      *)

InitClient ==
    /\ state = initialState
    /\ serverCart = <<[product_id |-> "p1", quantity |-> 1]>>
    /\ inflight = {}
    /\ ncalls = 0
    /\ lastCall = NoCall
    /\ lastEv = "init"
    /\ lastResult = 0
    /\ nsvc = 0
    /\ svcResult = Ok(<<>>)
    /\ subtotalIn = 0
    /\ summary = NoSummary
    /\ shown = NoShown
    /\ SerialIdle
    /\ OrdersIdle
    /\ CatalogIdle
    /\ UiIdle
    /\ formData \in {ValidForm, BadZipForm}
    /\ errors = NoErrors
    /\ isSubmitting = FALSE
    /\ orderFlight = Null
    /\ submitted = NoSubmit
    /\ route = Null
    /\ alerted = ""

NextClient ==
    \/ Mount
    \/ RefreshCart
    \/ RemoveFromCart
    \/ ServerHandle
    \/ Deliver
    \/ NetworkFail
    \/ HandleSubmit
    \/ OrderServe
    \/ OrderDeliver
    \/ OrderNetworkFail

SpecClient == InitClient /\ [][NextClient]_vars

-----------------------------------------------------------------------------
(* Properties *)

MutationFns == {"addToCart", "updateQuantity", "removeFromCart"}

\* The request whose promise settles in this step, if any.
Settled(r) == r \in inflight /\ r \notin inflight' /\ lastEv' \in {"ok", "failed"}

\* The request a context function hands to apiRequest in this step, if any.
Started(r) == r \in inflight' /\ r.st = "sent" /\ r \notin inflight

CachedHas(s, pid) ==
    /\ s.cart # Null
    /\ \E i \in 1..Len(s.cart[1].items) : s.cart[1].items[i].product_id = pid

CachedQty(s, pid) ==
    IF CachedHas(s, pid)
    THEN s.cart[1].items[CHOOSE i \in 1..Len(s.cart[1].items) :
                           s.cart[1].items[i].product_id = pid].quantity
    ELSE 0

\* C1: when a cart call of the context (refreshCart, addToCart, updateQuantity,
\* removeFromCart) succeeds, the cached cart becomes exactly the snapshot the
\* server returned, loading becomes false and error becomes null.
C1_SuccessReplacesCache ==
    [][\A r \in inflight :
          (Settled(r) /\ lastEv' = "ok") =>
              state' = [cart |-> Some(r.resp.cart), loading |-> FALSE, error |-> Null]]_vars

\* A successful response has replaced the cache with a non-empty snapshot.
C1_Witness ==
    /\ lastEv = "ok"
    /\ state.cart # Null
    /\ Len(state.cart[1].items) > 0
    /\ ~state.loading
    /\ state.error = Null

\* C2: when a cart call of the context fails, error is set to a message and the
\* cached cart is the snapshot it held before the failure.
C2_FailureKeepsCache ==
    [][\A r \in inflight :
          (Settled(r) /\ lastEv' = "failed") =>
              /\ state'.cart = state.cart
              /\ state'.error # Null
              /\ state'.error[1] # ""]_vars

\* A call failed while the cache held a non-empty snapshot, which is still there.
C2_Witness ==
    /\ lastEv = "failed"
    /\ state.error # Null
    /\ state.cart # Null
    /\ Len(state.cart[1].items) > 0

\* C3: whenever no cart request is in flight and the most recently completed
\* request succeeded (error is null and a snapshot is stored), the cached cart
\* equals the session's cart on the server.
C3_CacheInSync ==
    (inflight = {} /\ state.error = Null /\ state.cart # Null)
        => state.cart[1] = Snapshot(serverCart)

\* C4 as stated: every call of addToCart, updateQuantity or removeFromCart, for
\* every argument value, sets loading = true.
C4_EveryMutationSetsLoading ==
    [][(ncalls' # ncalls /\ lastCall'.fn \in MutationFns) => state'.loading]_vars

\* C4 as amended: every mutation call that performs a remote call sets
\* loading = true when it issues the request; the only mutation call that
\* performs none is addToCart with quantity <= 0, which changes nothing.
C4_LoadingBeforeRemoteCall ==
    [][(ncalls' # ncalls /\ lastCall'.fn \in MutationFns) =>
          IF lastCall'.fn = "addToCart" /\ lastCall'.qty <= 0
          THEN inflight' = inflight /\ state' = state
          ELSE /\ state'.loading
               /\ \E r \in inflight' : Started(r) /\ r.id = ncalls']_vars

\* addToCart has just issued its request and loading is true.
C4_Witness ==
    /\ lastEv = "sent"
    /\ lastCall.fn = "addToCart"
    /\ lastCall.qty > 0
    /\ state.loading
    /\ \E r \in inflight : r.id = ncalls /\ r.st = "sent" /\ r.req.method = "POST"

Reflects(s, req) ==
    CASE req.method = "POST"   -> CachedHas(s, req.pid) /\ CachedQty(s, req.pid) >= req.qty
      [] req.method = "PUT"    -> CachedHas(s, req.pid) /\ CachedQty(s, req.pid) = req.qty
      [] req.method = "DELETE" -> ~CachedHas(s, req.pid)
      [] OTHER -> TRUE

\* C6: while an add, update or remove is in flight, the cached cart already
\* shows the effect of that mutation.
C6_OptimisticallyReflected ==
    \A r \in inflight : Reflects(state, r.req)

\* C7: getItemCount and getCartTotal return the cached snapshot's total_items
\* and subtotal, 0 when no snapshot is stored, and change no state.
C7_DerivedReads ==
    [][(ncalls' # ncalls /\ lastCall'.fn \in {"getItemCount", "getCartTotal"}) =>
          /\ lastCall'.fn = "getItemCount" =>
                lastResult' = IF state.cart = Null THEN 0 ELSE state.cart[1].total_items
          /\ lastCall'.fn = "getCartTotal" =>
                lastResult' = IF state.cart = Null THEN 0 ELSE state.cart[1].subtotal
          /\ UNCHANGED <<state, serverCart, inflight>>]_vars

\* getItemCount has returned the item count of a stored, non-empty snapshot.
C7_Witness ==
    /\ lastEv = "read"
    /\ lastCall.fn = "getItemCount"
    /\ state.cart # Null
    /\ lastResult = state.cart[1].total_items
    /\ lastResult > 0

\* C8: shipping = 0 if subtotal >= 75 and 5.99 otherwise; tax = subtotal x 0.0875;
\* total = subtotal + shipping + tax; 50.00 gives 5.99, 4.375, 60.365 and
\* 80.00 gives 0, 7.00, 87.00.  (Units of 1/10000 cent.)
C8_OrderTotals ==
    summary.by # "none" =>
        /\ subtotalIn >= 7500 => summary.shipping = 0
        /\ subtotalIn < 7500 => summary.shipping = 5990000
        /\ summary.tax = subtotalIn * 875
        /\ summary.total = subtotalIn * 10000 + summary.shipping + summary.tax
        /\ subtotalIn = 5000 =>
              summary.shipping = 5990000 /\ summary.tax = 4375000
              /\ summary.total = 60365000
        /\ subtotalIn = 8000 =>
              summary.shipping = 0 /\ summary.tax = 7000000
              /\ summary.total = 87000000

\* The cart page's summary has been rendered for a subtotal of exactly 75.00.
C8_Witness ==
    /\ summary.by = "OrderSummary"
    /\ subtotalIn = 7500
    /\ summary.shipping = 0

\* What addItem(pid, q) with a known product and q > 0 does to the entry list.
Added(before, after, pid, q) ==
    /\ Cardinality({i \in 1..Len(after) : after[i].product_id = pid}) = 1
    /\ QtyOf(after, pid) = QtyOf(before, pid) + q
    /\ Without(after, pid) = Without(before, pid)
    /\ IF HasEntry(before, pid)
       THEN Len(after) = Len(before) /\ IndexOf(after, pid) = IndexOf(before, pid)
       ELSE Len(after) = Len(before) + 1 /\ after[Len(after)].product_id = pid

\* C9: addItem for a known product and a positive quantity q leaves exactly one
\* entry for the product, with its quantity increased by q (q1 then q2 gives
\* q1+q2), and keeps the entries' insertion order.
C9_AddItemAdditive ==
    [][/\ (nsvc' # nsvc /\ lastCall'.fn = "addItem"
           /\ lastCall'.pid \in Products /\ lastCall'.qty > 0) =>
              Added(serverCart, serverCart', lastCall'.pid, lastCall'.qty)
       /\ \A r \in inflight :
              (r.st = "sent" /\ r.req.method = "POST" /\ lastEv' = "served"
               /\ \E a \in inflight' : a.id = r.id /\ a.st = "answered") =>
                  Added(serverCart, serverCart', r.req.pid, r.req.qty)]_vars

\* A second addItem for a product already in the cart has been applied.
C9_Witness ==
    /\ lastEv = "svc"
    /\ lastCall.fn = "addItem"
    /\ svcResult.ok
    /\ lastCall.qty > 0
    /\ QtyOf(serverCart, lastCall.pid) > lastCall.qty

\* C10: setQuantity with quantity <= 0 removes the entry, so that getCart shows
\* it absent; updateQuantity of the context with quantity <= 0 issues a remove
\* request, and no update request ever carries a quantity <= 0.
C10_NonPositiveQuantityRemoves ==
    [][/\ (nsvc' # nsvc /\ lastCall'.fn = "setQuantity" /\ lastCall'.qty <= 0) =>
              /\ ~HasEntry(getCart(serverCart').entries, lastCall'.pid)
              /\ HasEntry(serverCart, lastCall'.pid) =>
                    /\ svcResult'.ok
                    /\ serverCart' = Without(serverCart, lastCall'.pid)
       /\ (ncalls' # ncalls /\ lastCall'.fn = "updateQuantity" /\ lastCall'.qty <= 0) =>
              \E r \in inflight' :
                  /\ Started(r)
                  /\ r.req = cartApi_removeFromCart(lastCall'.pid)
       /\ \A r \in inflight' : r.req.method = "PUT" => r.req.qty > 0]_vars

\* setQuantity with a quantity <= 0 has removed an entry that was in the cart.
C10_Witness ==
    /\ lastEv = "svc"
    /\ lastCall.fn = "setQuantity"
    /\ lastCall.qty <= 0
    /\ svcResult.ok
    /\ ~HasEntry(serverCart, lastCall.pid)

RECURSIVE ItemsQty(_)
ItemsQty(items) ==
    IF items = <<>> THEN 0 ELSE Head(items).quantity + ItemsQty(Tail(items))

RECURSIVE ItemsSubtotal(_)
ItemsSubtotal(items) ==
    IF items = <<>> THEN 0 ELSE Head(items).subtotal + ItemsSubtotal(Tail(items))

TotalsConsistent(snap) ==
    /\ snap.total_items = ItemsQty(snap.items)
    /\ snap.subtotal = ItemsSubtotal(snap.items)
    /\ \A i \in 1..Len(snap.items) :
          snap.items[i].subtotal =
              snap.items[i].quantity * Price(snap.items[i].product_id)

\* C12: in every cart snapshot (of the service, in an answer, or cached by the
\* client) total_items is the sum of the quantities and subtotal the sum of
\* quantity x price; 2 x 9.99 and 1 x 14.50 gives 34.48.
C12_DerivedTotals ==
    /\ TotalsConsistent(Snapshot(serverCart))
    /\ TotalsConsistent(Snapshot(svcResult.entries))
    /\ \A r \in inflight : r.st = "answered" => TotalsConsistent(r.resp.cart)
    /\ state.cart # Null => TotalsConsistent(state.cart[1])
    /\ Snapshot(<<[product_id |-> "p1", quantity |-> 2],
                  [product_id |-> "p2", quantity |-> 1]>>).subtotal = 3448
    /\ Snapshot(<<[product_id |-> "p1", quantity |-> 2],
                  [product_id |-> "p2", quantity |-> 1]>>).total_items = 3

\* The service cart holds one unit of each of the two products, so the totals
\* are sums over more than one line.
C12_Witness ==
    /\ Len(serverCart) = 2
    /\ Snapshot(serverCart).subtotal = 2449
    /\ Snapshot(serverCart).total_items = 2

\* C17: addItem fails with NotFound for an unknown product and with
\* InvalidQuantity for a quantity <= 0, and a failed addItem leaves the cart as
\* it was.
C17_AddItemRejectsInvalid ==
    [][(nsvc' # nsvc /\ lastCall'.fn = "addItem") =>
          /\ (lastCall'.pid \notin Products /\ lastCall'.qty > 0) =>
                ~svcResult'.ok /\ svcResult'.message = "NotFound"
          /\ (lastCall'.pid \in Products /\ lastCall'.qty <= 0) =>
                ~svcResult'.ok /\ svcResult'.message = "InvalidQuantity"
          /\ (lastCall'.pid \notin Products /\ lastCall'.qty <= 0) =>
                ~svcResult'.ok /\ svcResult'.message \in {"NotFound", "InvalidQuantity"}
          /\ ~svcResult'.ok =>
                /\ serverCart' = serverCart
                /\ getCart(serverCart').entries = serverCart]_vars

\* addItem with a quantity <= 0 has been rejected on a non-empty cart.
C17_Witness ==
    /\ lastEv = "svc"
    /\ lastCall.fn = "addItem"
    /\ lastCall.qty <= 0
    /\ lastCall.pid \in Products
    /\ ~svcResult.ok
    /\ svcResult.message = "InvalidQuantity"
    /\ serverCart # <<>>

RECURSIVE AddedBy(_, _)
AddedBy(hs, pid) ==
    IF hs = <<>> THEN 0
    ELSE (IF Head(hs).pid = pid THEN Head(hs).qty ELSE 0) + AddedBy(Tail(hs), pid)

AllDone == handlers # <<>> /\ \A h \in 1..Len(handlers) : handlers[h].pc = "done"

\* C13: concurrent addItem calls of one session are serialized: once all of
\* them have finished, in whatever interleaving, every product's quantity has
\* grown by the sum of the quantities added for it.
C13_NoLostUpdate ==
    AllDone =>
        \A pid \in Products :
            QtyOf(serverCart, pid) = QtyOf(cartBefore, pid) + AddedBy(handlers, pid)

\* Two concurrent addItem calls for a product already in the cart, with
\* different quantities, have both finished.
C13_Witness ==
    /\ AllDone
    /\ handlers[1].pid = handlers[2].pid
    /\ handlers[1].qty # handlers[2].qty
    /\ HasEntry(cartBefore, handlers[1].pid)
    /\ QtyOf(serverCart, handlers[1].pid)
         = QtyOf(cartBefore, handlers[1].pid) + handlers[1].qty + handlers[2].qty

CacheEmpty(s) == s.cart = Null \/ Len(s.cart[1].items) = 0

\* C14: createOrder on a session whose cart is empty fails with EmptyCart and
\* creates no order; while the cached cart is null or empty, submitting the
\* checkout form sends no order request.
C14_EmptyCartNoOrder ==
    [][/\ serverCart = <<>> => orders' = orders
       /\ (serverCart = <<>> /\ orderResult' # orderResult
             /\ orderResult'.op = "createOrder") =>
              ~orderResult'.ok /\ orderResult'.message = "EmptyCart"
       /\ (serverCart = <<>> /\ orderFlight # Null /\ orderFlight' # Null
             /\ orderFlight'[1].st = "answered" /\ orderFlight[1].st = "sent") =>
              /\ ~orderFlight'[1].resp.ok
              /\ orderFlight'[1].resp.message = "EmptyCart"
       /\ CacheEmpty(state) => handleSubmit(state.cart, formData, errors).send = <<>>
       /\ (orderFlight = Null /\ orderFlight' # Null) => ~CacheEmpty(state)]_vars

\* An order request sent from a stale, non-empty cached cart has been refused
\* with EmptyCart by the service, whose cart is empty, and no order exists.
C14_Witness ==
    /\ orderFlight # Null
    /\ orderFlight[1].st = "answered"
    /\ orderFlight[1].resp.message = "EmptyCart"
    /\ serverCart = <<>>
    /\ orders = <<>>
    /\ ~CacheEmpty(state)

\* C15: creating an order leaves the session's cart on the service and the
\* client's cached snapshot as they were immediately before.
C15_OrderKeepsCart ==
    [][/\ Len(orders') > Len(orders) => serverCart' = serverCart /\ state' = state
       /\ (orderFlight # Null /\ orderFlight' = Null) =>
              serverCart' = serverCart /\ state' = state]_vars

\* The checkout's order has succeeded and the page has navigated to it; the
\* service cart and the cached snapshot still hold the ordered entries.
C15_Witness ==
    /\ route # Null
    /\ orderFlight = Null
    /\ Len(orders) = 1
    /\ serverCart # <<>>
    /\ orders[1].items = OrderLines(serverCart)
    /\ state.cart # Null
    /\ state.cart[1] = Snapshot(serverCart)

\* C16: createOrder returns the order it stores under a fresh id; stored
\* orders never change, whatever cart mutations and orders follow; getOrder
\* returns the stored order of an assigned id and NotFound for any other id.
C16_OrderRoundTrip ==
    [][/\ Len(orders') >= Len(orders)
       /\ \A i \in 1..Len(orders) : orders'[i] = orders[i]
       /\ Len(orders') > Len(orders) =>
              /\ Len(orders') = Len(orders) + 1
              /\ orders'[Len(orders')].id = Len(orders')
              /\ orders'[Len(orders')].items = OrderLines(serverCart)
              /\ orders'[Len(orders')].total =
                     orders'[Len(orders')].subtotal + orders'[Len(orders')].shipping
                       + orders'[Len(orders')].tax
              /\ orderResult' # orderResult =>
                     orderResult'.order = Some(orders'[Len(orders')])
              /\ orderFlight' # orderFlight =>
                     /\ orderFlight'[1].resp.order = Some(orders'[Len(orders')])
                     /\ orders'[Len(orders')].customer_info =
                            orderFlight[1].req.customer_info
       /\ (orderResult' # orderResult /\ orderResult'.op = "getOrder") =>
              IF orderResult'.id \in 1..Len(orders)
              THEN /\ orderResult'.ok
                   /\ orderResult'.order = Some(orders[orderResult'.id])
                   /\ orderResult'.order[1].id = orderResult'.id
              ELSE /\ ~orderResult'.ok
                   /\ orderResult'.message = "NotFound"
                   /\ orderResult'.order = Null]_vars

\* getOrder has returned the first of two orders after the cart was changed.
C16_Witness ==
    /\ orderResult.op = "getOrder"
    /\ orderResult.ok
    /\ orderResult.id = 1
    /\ Len(orders) = 2
    /\ orderResult.order = Some(orders[1])
    /\ orders[1].items # OrderLines(serverCart)
    /\ orders[2].items = OrderLines(serverCart)

FormWellFormed(fd) ==
    /\ \A f \in RequiredFields : fd[f] # <<>>
    /\ EmailOk(fd["email"])
    /\ ZipOk(fd["zip"])

Offending(fd) ==
    {f \in RequiredFields : fd[f] = <<>>}
      \cup (IF fd["email"] # <<>> /\ ~EmailOk(fd["email"]) THEN {"email"} ELSE {})
      \cup (IF fd["zip"] # <<>> /\ ~ZipOk(fd["zip"]) THEN {"zip"} ELSE {})

\* C20: a submission of the checkout form sends an order request only if every
\* required field is non-empty and the email and ZIP code are well-formed;
\* otherwise nothing is sent and every offending field carries a message.
C20_RequestOnlyWhenValid ==
    [][submitted' # submitted =>
          /\ orderFlight' # Null =>
                /\ FormWellFormed(formData)
                /\ orderFlight'[1].req.customer_info = CustomerInfo(formData)
                /\ \A f \in Fields : errors'[f] = ""
          /\ ~FormWellFormed(formData) =>
                /\ orderFlight' = Null
                /\ ~isSubmitting'
                /\ Offending(formData) # {}
                /\ \A f \in Offending(formData) : errors'[f] # ""
                /\ \A f \in Fields \ Offending(formData) : errors'[f] = ""]_vars

\* A form whose only fault is a malformed ZIP code has been submitted: no
\* request, and the ZIP field carries the message.
C20_Witness ==
    /\ submitted.outcome = "invalid"
    /\ orderFlight = Null
    /\ formData["zip"] # <<>>
    /\ ~ZipOk(formData["zip"])
    /\ EmailOk(formData["email"])
    /\ Offending(formData) = {"zip"}
    /\ errors["zip"] = "Please enter a valid ZIP code"

Ids(products) == {products[i].id : i \in 1..Len(products)}

\* the products appear in `within` in the same relative order, none twice
InOrderOf(products, within) ==
    /\ \A i \in 1..Len(products) : \E j \in 1..Len(within) : within[j] = products[i]
    /\ \A i, k \in 1..Len(products) :
          i < k => \E j, l \in 1..Len(within) :
                      j < l /\ within[j] = products[i] /\ within[l] = products[k]

NoneSelected(sel) == sel = Null \/ sel[1] = ""

\* C18: listProducts returns at most perPage products (12 when none is given),
\* each of the category asked for when one is given, in load order; the
\* products page shows exactly the loaded products of the selected category,
\* in their order, or all loaded products when no category is selected.
C18_ListingAndFilter ==
    /\ listing.op = "listProducts" =>
          LET q == listing.params
              got == listing.result.products
          IN /\ Len(got) <= (IF q.per_page = Null \/ q.per_page[1] = 0
                             THEN DefaultPerPage ELSE q.per_page[1])
             /\ Len(got) <= MaxPerPage
             /\ ~NoneSelected(q.category) =>
                    \A i \in 1..Len(got) : got[i].category = q.category[1]
             /\ InOrderOf(got, Catalog)
    /\ ~shop.loading =>
          /\ InOrderOf(shop.filteredProducts, shop.products)
          /\ Ids(shop.filteredProducts) =
                IF NoneSelected(shop.selectedCategory) THEN Ids(shop.products)
                ELSE {shop.products[i].id : i \in
                        {j \in 1..Len(shop.products) :
                           shop.products[j].category = shop.selectedCategory[1]}}

\* The second page of two "beans" has been listed, and the products page
\* shows the three loaded "beans" out of five products.
C18_Witness ==
    /\ listing.op = "listProducts"
    /\ listing.params.category = Some("beans")
    /\ listing.params.per_page = Some(2)
    /\ listing.params.page = Some(2)
    /\ Len(listing.result.products) = 1
    /\ ~shop.loading
    /\ shop.selectedCategory = Some("beans")
    /\ Len(shop.products) = 5
    /\ Len(shop.filteredProducts) = 3

\* C19: whatever the controls of the client do, every entry of the cart, on
\* the service and in the cached snapshot, has a quantity between 1 and 10.
C19_QuantityCapped ==
    /\ \A i \in 1..Len(serverCart) : serverCart[i].quantity \in 1..QuantityMax
    /\ \A i \in 1..Len(CachedItems(state)) :
          CachedItems(state)[i].quantity \in 1..QuantityMax

\* C21: the client never retries by itself: a request is created only by a
\* step in which a context function is called or the form is submitted, one
\* request per call; a step in which a request fails creates none.
C21_NoAutomaticRetry ==
    [][/\ \A r \in inflight' :
             (r.st = "sent" /\ r \notin inflight) =>
                 /\ ncalls' = ncalls + 1
                 /\ r.id = ncalls'
                 /\ r.fn = lastCall'.fn
       /\ Cardinality(inflight' \ inflight) <= 1
       /\ (orderFlight' # Null /\ orderFlight'[1].st = "sent" /\ orderFlight' # orderFlight) =>
              submitted'.n = submitted.n + 1
       /\ (lastEv' = "failed" /\ inflight' # inflight) =>
              /\ inflight' \subseteq inflight
              /\ Cardinality(inflight') = Cardinality(inflight) - 1
       /\ (orderFlight # Null /\ orderFlight' = Null) => submitted' = submitted]_vars

\* A cart request and the order request have both failed; nothing is in
\* flight and the error is shown.
C21_Witness ==
    /\ lastEv = "failed"
    /\ inflight = {}
    /\ state.error # Null
    /\ submitted.outcome = "sent"
    /\ orderFlight = Null
    /\ route = Null
    /\ alerted = "There was an error processing your order. Please try again."

\* C22: while at least one request issued through the cart context has not
\* completed, loading is true, also when several requests overlap.
C22_LoadingTracksInflight ==
    inflight # {} => state.loading

\* C23: SET_LOADING changes only the loading flag, so starting a cart
\* operation leaves cart and error as they are; a recorded error stays until
\* a successful cart response (SET_CART) arrives, the only step that resets
\* it to null.
C23_ErrorPersistsUntilSetCart ==
    [][/\ \A b \in BOOLEAN :
             cartReducer(state, SET_LOADING(b)) = [state EXCEPT !.loading = b]
       /\ (ncalls' = ncalls + 1 /\ lastEv' = "sent") =>
              /\ state'.cart = state.cart
              /\ state'.error = state.error
              /\ state'.loading
       /\ (state.error # Null /\ state'.error = Null) =>
              /\ lastEv' = "ok"
              /\ \E r \in inflight :
                    /\ inflight' = inflight \ {r}
                    /\ apiRequest(r.resp).ok
                    /\ state' = cartReducer(state, SET_CART(apiRequest(r.resp).cart))]_vars

\* An error recorded by a failed call is still there while the next
\* operation is running.
C23_Witness ==
    /\ state.error # Null
    /\ state.loading
    /\ lastEv = "sent"
    /\ lastCall.fn \in MutationFns

Pending(i) == \E r \in inflight : r.id = i

\* C24: every cart operation that has set loading = true and sent its
\* request is followed, once the request has succeeded or failed, by a state
\* with loading = false; loading is never stuck at true.
C24_LoadingEventuallyFalse ==
    /\ \A i \in 1..MaxCalls : Pending(i) ~> (~Pending(i) /\ ~state.loading)
    /\ state.loading ~> ~state.loading

\* An operation had set loading, its call has completed and loading is
\* false again.
C24_Witness ==
    /\ lastCall.fn \in MutationFns
    /\ lastEv \in {"ok", "failed"}
    /\ inflight = {}
    /\ ~state.loading

NonPositiveQtys == {-2, -1, 0}

\* C25: addToCart with quantity <= 0 is a no-op on the client: the call sends
\* no request and leaves cart, loading and error as they were, so no request
\* to addItem ever carries a non-positive quantity.
C25_NonPositiveAddIsNoOp ==
    [][/\ (ncalls' = ncalls + 1 /\ lastCall'.fn = "addToCart" /\ lastCall'.qty <= 0) =>
              /\ state' = state
              /\ inflight' = inflight
              /\ serverCart' = serverCart
       /\ \A pid \in Products, q \in NonPositiveQtys :
              addToCart(state, pid, q) = NoSend(state)
       /\ \A r \in inflight' : r.req.method = "POST" => r.req.qty > 0]_vars

\* addToCart was called with quantity 0 while a cart was cached, and
\* returned at once without a request.
C25_Witness ==
    /\ lastCall.fn = "addToCart"
    /\ lastCall.qty <= 0
    /\ lastEv = "returned"
    /\ state.cart # Null
    /\ \A r \in inflight : r.id # ncalls

\* C26: on the product detail page the selected quantity goes back to 1 only
\* when an add to cart has succeeded; when the add request fails the
\* selected quantity keeps its value.
C26_QuantityResetOnlyOnSuccess ==
    [][\A b \in ui.busy :
          (b.kind = "detail" /\ b \notin ui'.busy /\ inflight' # inflight) =>
              \/ lastEv' = "ok"
              \/ ui'.quantity = ui.quantity]_vars

AddControls == {"card", "detail"}

InflightAdds(kind, pid) ==
    {r \in inflight : /\ r.fn = "addToCart"
                      /\ \E b \in ui.busy : b.kind = kind /\ b.pid = pid /\ b.id = r.id}

\* C27: a product card or the detail page sends no add request for a product
\* that is out of stock, and each of these controls has at most one add
\* request in flight.
C27_AddControlsGuarded ==
    /\ \A r \in inflight :
          r.fn = "addToCart" =>
              /\ InStock(r.req.pid)
              /\ Cardinality({b \in ui.busy : b.id = r.id /\ b.kind \in AddControls}) = 1
    /\ \A kind \in AddControls, pid \in CardProducts :
          /\ Cardinality(InflightAdds(kind, pid)) <= 1
          /\ Cardinality({b \in ui.busy : b.kind = kind /\ b.pid = pid}) <= 1

\* The card and the detail page of the same product each have their own add
\* request in flight.
C27_Witness ==
    /\ Cardinality(InflightAdds("card", DetailProduct)) = 1
    /\ Cardinality(InflightAdds("detail", DetailProduct)) = 1
    /\ Cardinality(inflight) = 2

\* C28: on the checkout page at most one order request is in flight:
\* isSubmitting is true exactly from the start of a valid submission until
\* its request has succeeded or failed, no submission happens while it is
\* true, it is false after either outcome, and the page navigates only on a
\* successful response, to the confirmation of the order id it returned.
C28_SingleOrderRequest ==
    [][/\ isSubmitting <=> orderFlight # Null
       /\ isSubmitting => submitted' = submitted
       /\ (orderFlight' # Null /\ orderFlight'[1].st = "sent" /\ submitted' # submitted) =>
              /\ orderFlight = Null
              /\ isSubmitting'
              /\ submitted'.outcome = "sent"
       /\ (submitted' # submitted /\ submitted'.outcome # "sent") =>
              /\ orderFlight' = Null
              /\ ~isSubmitting'
       /\ (orderFlight # Null /\ orderFlight' = Null) => ~isSubmitting'
       /\ route' # route =>
              /\ orderFlight # Null
              /\ orderFlight' = Null
              /\ orderFlight[1].st = "answered"
              /\ orderFlight[1].resp.ok
              /\ route' = Some(orderFlight[1].resp.order[1].id)
       /\ (orderFlight # Null /\ orderFlight' = Null /\ route' = route) =>
              alerted' = "There was an error processing your order. Please try again."]_vars

\* A first order request failed (the alert was shown, the button enabled
\* again), the form was submitted a second time and that request succeeded.
C28_Witness ==
    /\ submitted = [n |-> 2, outcome |-> "sent"]
    /\ alerted = "There was an error processing your order. Please try again."
    /\ route # Null
    /\ ~isSubmitting
    /\ orderFlight = Null

SameAmounts(a, b) == a.shipping = b.shipping /\ a.tax = b.tax /\ a.total = b.total

\* C29: for every subtotal the cart page's OrderSummary and the checkout
\* page's CheckoutSummary compute the same shipping, tax and total, and
\* display the same amounts: whatever one of them has rendered, the other
\* renders for the same subtotal.
C29_SummariesAgree ==
    /\ summary.by = "OrderSummary" =>
          /\ SameAmounts(summary, CheckoutSummary(Units(subtotalIn)))
          /\ SameAmounts(shown, CheckoutSummaryView(subtotalIn))
          /\ shown.subtotal = CheckoutSummaryView(subtotalIn).subtotal
    /\ summary.by = "CheckoutSummary" =>
          /\ SameAmounts(summary, OrderSummary(Units(subtotalIn)))
          /\ SameAmounts(shown, OrderSummaryView(subtotalIn))
          /\ shown.subtotal = OrderSummaryView(subtotalIn).subtotal

\* The checkout page's summary has been rendered for a subtotal of 74.99,
\* the largest one that still pays shipping.
C29_Witness ==
    /\ summary.by = "CheckoutSummary"
    /\ shown.by = "CheckoutSummary"
    /\ subtotalIn = 7499
    /\ summary.shipping = Units(ShippingFeeCents)
    /\ shown.shipping = ShippingFeeCents

\* C30: for every subtotal of whole cents the displayed total equals the sum
\* of the displayed subtotal, the displayed shipping and the displayed tax,
\* each rounded to 2 decimal places.
C30_DisplayedTotalIsSum ==
    shown.by # "none" =>
        shown.total = shown.subtotal + shown.shipping + shown.tax

====
